---- MODULE Spec2Model ----
(***************************************************************************)
(* Session-message buffering pipeline of acontext_core: the insert-entry   *)
(* and buffer-process consumers, the blocking flush, the session lock and  *)
(* process_session_pending_message, for ONE session of one project; the    *)
(* task agent with its tools and the task store of that session; and the   *)
(* consumer of the task-completion events.                                 *)
(*                                                                         *)
(* Messages are numbered 1..MaxMessages in created_at order (created_at is *)
(* monotonic per session), so "older" is "smaller id".                     *)
(***************************************************************************)
EXTENDS Integers, FiniteSets, Sequences, TLC

\* ---------------------------------------------------------------- bounds
\* message ids of the session (the largest backlog of the overflow scenario)
MaxMessages == 4
\* messages ingress creates while the consumers run
MaxIngest == 3
\* concurrent handler tasks (the consumers run up to mq_global_qos of them)
NumWorkers == 2
\* calls of flush_session_message_blocking
MaxBlocking == 1
\* infrastructure faults (raised exceptions, error results, handler timeouts)
MaxFaults == 1
\* ProjectConfig.project_session_message_buffer_max_turns (default 16)
buffer_max_turns == 2
\* ProjectConfig.project_session_message_buffer_max_overflow (default 16)
buffer_max_overflow == 0

\* rows of the tasks table of the session (the planning task included)
MaxTasks == 3
\* messages of the batch handed to task_agent_curd
MaxBatch == 1
\* tool calls of one LLM response
MaxCalls == 2
\* flushes that run the task agent
MaxFlushes == 2
\* NewTaskComplete bodies published for the session
MaxEvents == 2
\* largest integer the LLM supplies as an order (the smallest is -1)
MaxArg == 2
\* ProjectConfig.default_task_agent_max_iterations (default 4)
max_iterations == 2
\* tool calls of one LLM response in the control-flow model of the agent
MaxResponse == 3
\* concurrent calls of space_complete_new_task
NumDigest == 3

\* deliveries of the consumer
NumDeliveries == 2

\* ------------------------------------------------------ program constants
\* CoreConfig.mq_default_max_retries
max_retries == 1
\* CoreConfig.mq_default_retry_delay_unit_sec
retry_delay == 1

Msgs == 1..MaxMessages
Workers == 1..NumWorkers
TaskIds == 1..MaxTasks
BatchIdx == 0..(MaxBatch - 1)
Digesters == 1..NumDigest
Deliveries == 1..NumDeliveries

VARIABLES
    status,      \* message id -> session_task_process_status ("none": not created)
    entryQ,      \* queue session.message.insert.entry: message_id -> copies
    retryQ,      \* parking queue session.message.insert.retry
    timers,      \* sleeping waiting_for_message_notify tasks: message_id -> count
    lock,        \* session.message.insert.{session_id}: 0 free, else the setter
    h,           \* worker -> the handler invocation it runs
    blocking,    \* flush_session_message_blocking calls made so far
    faults       \* infrastructure faults injected so far

\* the task store and the task agent of the same session
VARIABLES
    tasks,       \* task id -> row of the tasks table (live: the row exists)
    link,        \* index of a message of the batch -> Message.task_id (0: NULL)
    ctx,         \* USE_CTX of task_agent_curd
    events,      \* task id -> NewTaskComplete bodies published for it
    loop,        \* position of task_agent_curd and its last tool call
    dg           \* call of space_complete_new_task -> its position and result

\* the control flow of one call of task_agent_curd
VARIABLES
    run          \* position, counters, tool calls and result of the call

bufVars == <<status, entryQ, retryQ, timers, lock, h, blocking, faults>>
taskVars == <<tasks, link, ctx, events, loop, dg>>
\* the broker client and the deliveries of one consumer
VARIABLES
    dl,          \* delivery -> state of its _process_message task
    mq           \* the client: position of stop(), state of the connection

\* the batch of one flush on its way from the claim to the agent
VARIABLES
    bt           \* the claimed ids, the rows read, the prompt and the index

\* one flush of the task agent seen at the level of its transactions
VARIABLES
    tx           \* committed rows, the open transaction, publish tasks, result

agentVars == <<run>>
mqVars == <<dl, mq>>
batchVars == <<bt>>
txVars == <<tx>>
ctlVars == <<agentVars, mqVars, batchVars, txVars>>
vars == <<status, entryQ, retryQ, timers, lock, h, blocking, faults,
          tasks, link, ctx, events, loop, dg, run, dl, mq, bt, tx>>
\* everything but the variables of the agent's control flow / of the broker
notAgent == <<bufVars, taskVars, mqVars, batchVars, txVars>>
notMq == <<bufVars, taskVars, agentVars, batchVars, txVars>>
\* everything but the variables of the batch / of the transactions
notBatch == <<bufVars, taskVars, agentVars, mqVars, txVars>>
notTx == <<bufVars, taskVars, agentVars, mqVars, batchVars>>

\* ------------------------------------------------------------ data layer
\* the session's pending messages
Pending(st) == {m \in Msgs : st[m] = "pending"}

\* MD.session_message_length: count of pending messages
session_message_length(st) == Cardinality(Pending(st))

\* the `limit` first elements of S, oldest first (asc) or newest first
FirstIds(S, limit, asc) ==
    {m \in S : Cardinality({x \in S : IF asc THEN x < m ELSE x > m}) < limit}

\* MD.get_message_ids(session, session_id, limit, asc): pending ids by created_at
get_message_ids(st, limit, asc) == FirstIds(Pending(st), limit, asc)

\* message_ids[0] of the default (newest first) listing, 0 when the list is empty
LatestPending(st) ==
    IF Pending(st) = {} THEN 0
    ELSE CHOOSE m \in Pending(st) : \A x \in Pending(st) : x <= m

\* MD.update_message_status_to: UPDATE ... WHERE id IN message_ids
update_message_status_to(st, ids, s) ==
    [m \in Msgs |-> IF m \in ids THEN s ELSE st[m]]

\* ------------------------------------------------------------ task store
TaskStatus == {"pending", "running", "success", "failed"}

\* a row that does not exist
NoTask == [live |-> FALSE, order |-> 0, status |-> "pending",
           planning |-> FALSE, space_digested |-> FALSE]

\* uq_session_id_order: UniqueConstraint(session_id, order)
uq_session_id_order(tk) ==
    \A a, b \in TaskIds :
        (tk[a].live /\ tk[b].live /\ a # b) => tk[a].order # tk[b].order

\* the rows `.where(Task.is_planning == False)`
NonPlanning(tk) == {t \in TaskIds : tk[t].live /\ ~tk[t].planning}

\* TD.fetch_current_tasks: the non-planning tasks, `order_by(Task.order.asc())`
fetch_current_tasks(tk) ==
    LET S == NonPlanning(tk)
        n == Cardinality(S)
    IN CHOOSE q \in [1..n -> S] :
           \A i, j \in 1..n : i < j => tk[q[i]].order < tk[q[j]].order

\* TD.fetch_planning_task: the planning row, 0 when there is none
fetch_planning_task(tk) ==
    IF \E t \in TaskIds : tk[t].live /\ tk[t].planning
    THEN CHOOSE t \in TaskIds : tk[t].live /\ tk[t].planning
    ELSE 0

\* the primary key of the next row
NewTaskId(tk) == CHOOSE t \in TaskIds : ~tk[t].live /\ \A x \in TaskIds : x < t => tk[x].live

\* faulty variant: the shifted rows come back without the increment
Renumber_NoShift(o) == -o

\* `.values(order=-Task.order + 1)`
Renumber(o) == -o + 1

\* TD.insert_task after its assert: sign-flip shift of the rows with
\* order > after_order, renumbering, and the new row at after_order + 1
insert_task(tk, after_order, id) ==
    LET step1 == [t \in TaskIds |->
                    IF tk[t].live /\ tk[t].order > after_order
                    THEN [tk[t] EXCEPT !.order = -@] ELSE tk[t]]
        step2 == [t \in TaskIds |->
                    IF step1[t].live /\ step1[t].order < 0
                    THEN [step1[t] EXCEPT !.order = Renumber(@)] ELSE step1[t]]
    IN [step2 EXCEPT ![id] = [live |-> TRUE, order |-> after_order + 1,
                              status |-> "pending", planning |-> FALSE,
                              space_digested |-> FALSE]]

\* TD.update_task: only the arguments that are not None are written (the
\* data column, which patch_data merges into, is not part of the state)
update_task(tk, id, st) ==
    [tk EXCEPT ![id].status = IF st # "none" THEN st ELSE @]

\* TD.append_messages_to_task: UPDATE messages SET task_id WHERE id IN ids
append_messages_to_task(lk, idxs, id) ==
    [i \in BatchIdx |-> IF i \in idxs THEN id ELSE lk[i]]

\* faulty variant: the planning row takes the first order of the task list
PlanningRow_AtOne == [live |-> TRUE, order |-> 1, status |-> "pending",
                      planning |-> TRUE, space_digested |-> FALSE]

\* the planning row created by TD.append_messages_to_planning_section
PlanningRow == [live |-> TRUE, order |-> 0, status |-> "pending",
                planning |-> TRUE, space_digested |-> FALSE]

\* USE_CTX = None
NoCtx == [built |-> FALSE, ids |-> <<>>, st |-> <<>>]

\* build_task_ctx: the context in use is kept, else task_ids_index and
\* task_index (a copy of the rows) are read from the table
build_task_ctx(c, tk) ==
    IF c.built THEN c
    ELSE LET q == fetch_current_tasks(tk) IN
         [built |-> TRUE, ids |-> q,
          st |-> [i \in 1..Len(q) |-> tk[q[i]].status]]

\* faulty variant: no tool drops the context
NEED_UPDATE_CTX_None == {}

\* the tools after which the context is built again
NEED_UPDATE_CTX == {"insert_task"}

\* `if tool_name in NEED_UPDATE_CTX: USE_CTX = None`
NextCtx(tool_name, c) == IF tool_name \in NEED_UPDATE_CTX THEN NoCtx ELSE c

\* `[ctx.message_ids_index[i] for i in message_order_indexes if i < len(...)]`
actually_message_ids(idxs) == {i \in idxs : i < MaxBatch}

\* faulty variant: every status update announces a completed task
SendsComplete_Always(st) == st # "none"

\* `task_status is not None and task_status == TaskStatus.SUCCESS.value`
SendsComplete(st) == st = "success"

\* task_agent_curd is not running (res: the result of its last tool call)
IdleLoop == [pc |-> "idle", iter |-> 0, calls |-> 0, flushes |-> 0, res |-> "none"]

\* a call of space_complete_new_task that has not started
IdleDg == [pc |-> "idle", task |-> 0, seen |-> FALSE, ret |-> "none"]

\* task_agent_curd has not been called: already_iterations, the LLM calls
\* made, llm_return.tool_calls and the index of the `for` loop over them,
\* just_finish, the tool names whose result is in tool_response, the way
\* the call ended (ret, why) and the status of the claimed batch
IdleRun == [pc |-> "idle", already_iterations |-> 0, llm_calls |-> 0,
            tool_calls |-> <<>>, at |-> 1, just_finish |-> FALSE,
            tool_response |-> <<>>, ret |-> "none", why |-> "none",
            batch |-> "running"]

\* a delivery the consumer has not received yet: the await its
\* _process_message task is suspended at, kind of body, retry_count, the handler
\* invocations with their outcomes, the waits slept between attempts, the
\* acks and rejects sent to the broker, whether stop() cancelled the task
IdleDl == [pc |-> "queued", body |-> "none", retry_count |-> 0, invoked |-> 0,
           outcomes |-> <<>>, waits |-> <<>>, acks |-> 0, rejects |-> 0,
           cancelled |-> FALSE]

\* the client after start(): consumer loops running, connection open
RunningMq == [pc |-> "running", conn |-> "open"]

\* no batch is claimed: pending_message_ids, the rows of the SELECT in the
\* order the database gives them, the messages handed to the agent, the
\* <message id=N> lines of the prompt, message_ids_index, and the last
\* index a tool call carried (past every index of a batch: no call yet) with
\* the message it resolved to (0: none, -1: IndexError), and the messages
\* whose task_id the tool calls have written
IdleBt == [pc |-> "idle", ids |-> <<>>, rows |-> <<>>, messages |-> <<>>,
           prompt |-> <<>>, index |-> <<>>, asked |-> buffer_max_overflow + buffer_max_turns + 1,
           resolved |-> 0, linked |-> {}]

\* the tasks table and Message.task_id of the batch, as a transaction or a
\* reader sees them
EmptyDb == [tasks |-> [t \in TaskIds |-> NoTask], link |-> [i \in BatchIdx |-> 0]]

\* task_agent_curd has not been called: the committed rows and the rows as
\* the open session sees them (equal when no transaction is open), the rows
\* when the flush started, USE_CTX, the tool call in progress (tool, arg),
\* the calls made and the result of the last one, the exceptions raised,
\* the way the agent ended, the status of the claimed batch, the
\* send_complete_new_task task of each task id, the task ids whose success
\* is written in a transaction that has not committed, and what
\* space_complete_new_task read and did for it
IdleTx == [pc |-> "idle", committed |-> EmptyDb, work |-> EmptyDb,
           start |-> EmptyDb, ctx |-> NoCtx, tool |-> "none", arg |-> 0,
           calls |-> 0, res |-> "none", raised |-> 0, ret |-> "none",
           batch |-> "running",
           pub |-> [t \in TaskIds |-> "none"], uncommitted |-> {},
           seen |-> [t \in TaskIds |-> "none"],
           digested |-> [t \in TaskIds |-> FALSE]]

\* the parts of the state outside the pipeline and the task store
CtlInit ==
    /\ run = IdleRun
    /\ dl = [d \in Deliveries |-> IdleDl]
    /\ mq = RunningMq
    /\ bt = IdleBt
    /\ tx = IdleTx

\* the task store before the first flush
TaskInit ==
    /\ tasks = [t \in TaskIds |-> NoTask]
    /\ link = [i \in BatchIdx |-> 0]
    /\ ctx = NoCtx
    /\ events = [t \in TaskIds |-> 0]
    /\ loop = IdleLoop
    /\ dg = [c \in Digesters |-> IdleDg]

\* ------------------------------------------------ decisions of the handlers
\* faulty variant: only checks that the message is still pending
NotLatest_StillPending(st, mid) == st[mid] # "pending"

\* `body.message_id != latest_pending_message_id` (and the empty-list return)
NotLatest(st, mid) == Pending(st) = {} \/ mid # LatestPending(st)

\* faulty variant: a count equal to the threshold still waits
BelowThreshold_Inclusive(len) == len <= buffer_max_turns

\* `pending_message_length < project_session_message_buffer_max_turns`
BelowThreshold(len) == len < buffer_max_turns

\* faulty variant: the overflow detection is missing
Overflowed_Never(len) == FALSE

\* faulty variant: a count equal to the sum already overflows
Overflowed_Inclusive(len) == len >= buffer_max_overflow + buffer_max_turns

\* `pending_message_length > max_overflow + max_turns`
Overflowed(len) == len > buffer_max_overflow + buffer_max_turns

\* faulty variant: the limit is one too large
ClaimLimit_OffByOne == buffer_max_overflow + buffer_max_turns + 1

\* limit of the batch claim
ClaimLimit == buffer_max_overflow + buffer_max_turns

\* faulty variant: the batch is marked success whatever the agent returned
AfterStatus_Success(r) == "success"

\* after_status of the final status write
AfterStatus(r) == IF r = "ok" THEN "success" ELSE "failed"

\* --------------------------------------------------------------- handlers
\* a handler invocation: kind of entry point, position, notification body,
\* pending_message_length, pending_message_ids, whether the claim committed,
\* the result r, whether it raised / was cancelled, the retry_count of
\* _process_message, and what the invocation did (last, nRetry, nTimer)
IdleH == [kind |-> "none", pc |-> "idle", body |-> 0, len |-> 0, ids |-> {},
          claimed |-> FALSE, r |-> "none", exc |-> FALSE, cancelled |-> FALSE,
          attempt |-> 0, last |-> "none", nRetry |-> 0, nTimer |-> 0]

Inc(q, m) == [q EXCEPT ![m] = @ + 1]
Dec(q, m) == [q EXCEPT ![m] = @ - 1]

Init ==
    /\ status = [m \in Msgs |-> "none"]
    /\ entryQ = [m \in Msgs |-> 0]
    /\ retryQ = [m \in Msgs |-> 0]
    /\ timers = [m \in Msgs |-> 0]
    /\ lock = 0
    /\ h = [w \in Workers |-> IdleH]
    /\ blocking = 0
    /\ faults = 0
    /\ TaskInit
    /\ CtlInit

\* a step without an infrastructure fault / with one
NoFault == faults' = faults
Fault == faults < MaxFaults /\ faults' = faults + 1

\* ingress stores a new message as pending and publishes its notification
Ingest ==
    \E m \in Msgs :
        /\ m <= MaxIngest
        /\ status[m] = "none"
        /\ \A x \in Msgs : x < m => status[x] # "none"
        /\ status' = [status EXCEPT ![m] = "pending"]
        /\ entryQ' = Inc(entryQ, m)
        /\ UNCHANGED <<retryQ, timers, lock, h, blocking, faults>>
        /\ UNCHANGED <<taskVars, ctlVars>>

\* _consume_queue hands work to the first free handler task
Free(w) == h[w].pc = "idle" /\ \A v \in Workers : v < w => h[v].pc # "idle"

\* a handler invocation of kind k for the notification of message m
Invoke(k, m, attempt) ==
    [IdleH EXCEPT !.kind = k, !.pc = "latest", !.body = m, !.attempt = attempt]

\* a notification published by ingress is delivered to insert_new_message
DeliverInsert(w, m) ==
    /\ Free(w)
    /\ entryQ[m] > 0
    /\ entryQ' = Dec(entryQ, m)
    /\ h' = [h EXCEPT ![w] = Invoke("insert", m, 0)]
    /\ UNCHANGED <<status, retryQ, timers, lock, blocking, faults>>
    /\ UNCHANGED <<taskVars, ctlVars>>

\* the TTL of a copy parked on insert-retry runs out: it is dead-lettered to
\* session.message.insert and delivered to insert_new_message
DeliverRetry(w, m) ==
    /\ Free(w)
    /\ retryQ[m] > 0
    /\ retryQ' = Dec(retryQ, m)
    /\ h' = [h EXCEPT ![w] = Invoke("insert", m, 0)]
    /\ UNCHANGED <<status, entryQ, timers, lock, blocking, faults>>
    /\ UNCHANGED <<taskVars, ctlVars>>

\* waiting_for_message_notify wakes up and publishes to buffer-process, and
\* the copy is delivered to buffer_new_message
DeliverBuffer(w, m) ==
    /\ Free(w)
    /\ timers[m] > 0
    /\ timers' = Dec(timers, m)
    /\ h' = [h EXCEPT ![w] = Invoke("buffer", m, 0)]
    /\ UNCHANGED <<status, entryQ, retryQ, lock, blocking, faults>>
    /\ UNCHANGED <<taskVars, ctlVars>>

\* ingress calls flush_session_message_blocking
CallBlocking(w) ==
    /\ Free(w)
    /\ blocking < MaxBlocking
    /\ blocking' = blocking + 1
    /\ h' = [h EXCEPT ![w] = [IdleH EXCEPT !.kind = "blocking", !.pc = "lock"]]
    /\ UNCHANGED <<status, entryQ, retryQ, timers, lock, faults>>
    /\ UNCHANGED <<taskVars, ctlVars>>

\* latest-wins check of insert_new_message and buffer_new_message
LatestCheck(w) ==
    /\ h[w].pc = "latest"
    /\ IF NotLatest(status, h[w].body)
       THEN h' = [h EXCEPT ![w].pc = "done", ![w].last = "dropped"]
       ELSE h' = [h EXCEPT ![w].pc = IF h[w].kind = "insert" THEN "count"
                                     ELSE "lock"]
    /\ UNCHANGED <<status, entryQ, retryQ, timers, lock, blocking, faults>>
    /\ UNCHANGED <<taskVars, ctlVars>>

\* faulty variant: the coroutine is created but never scheduled
ScheduleNotify_Never(t, m) == t

\* asyncio.create_task(waiting_for_message_notify(ttl, body))
ScheduleNotify(t, m) == Inc(t, m)

\* threshold check of insert_new_message
ThresholdCheck(w) ==
    /\ h[w].pc = "count"
    /\ LET len == session_message_length(status) IN
        IF BelowThreshold(len)
        THEN /\ timers' = ScheduleNotify(timers, h[w].body)
             /\ h' = [h EXCEPT ![w].pc = "done", ![w].last = "timer",
                               ![w].len = len, ![w].nTimer = @ + 1]
        ELSE /\ timers' = timers
             /\ h' = [h EXCEPT ![w].pc = "lock", ![w].len = len]
    /\ UNCHANGED <<status, entryQ, retryQ, lock, blocking, faults>>
    /\ UNCHANGED <<taskVars, ctlVars>>

\* faulty variant: the notification is dropped instead of parked
PublishRetry_Dropped(q, m) == q

\* MQ_CLIENT.publish(session_message, session_message_insert_retry, body)
PublishRetry(q, m) == Inc(q, m)

\* faulty variant: the key is set whether or not it was free
check_redis_lock_or_set_Always(l) == TRUE

\* check_redis_lock_or_set: SET NX, TRUE when the key was free
check_redis_lock_or_set(l) == l = 0

\* insert_new_message from the lock attempt to the call of
\* process_session_pending_message: contention, overflow detection
InsertLock(w) ==
    /\ h[w].pc = "lock"
    /\ h[w].kind = "insert"
    /\ IF check_redis_lock_or_set(lock)
       THEN /\ lock' = w
            /\ IF Overflowed(h[w].len)
               THEN /\ retryQ' = PublishRetry(retryQ, h[w].body)
                    /\ h' = [h EXCEPT ![w].pc = "claim", ![w].nRetry = @ + 1]
               ELSE /\ retryQ' = retryQ
                    /\ h' = [h EXCEPT ![w].pc = "claim"]
       ELSE /\ lock' = lock
            /\ retryQ' = PublishRetry(retryQ, h[w].body)
            /\ h' = [h EXCEPT ![w].pc = "done", ![w].last = "contended",
                              ![w].nRetry = @ + 1]
    /\ UNCHANGED <<status, entryQ, timers, blocking, faults>>
    /\ UNCHANGED <<taskVars, ctlVars>>

\* buffer_new_message from the lock attempt to the call of
\* process_session_pending_message
BufferLock(w) ==
    /\ h[w].pc = "lock"
    /\ h[w].kind = "buffer"
    /\ IF check_redis_lock_or_set(lock)
       THEN /\ lock' = w
            /\ retryQ' = retryQ
            /\ h' = [h EXCEPT ![w].pc = "claim"]
       ELSE /\ lock' = lock
            /\ retryQ' = PublishRetry(retryQ, h[w].body)
            /\ h' = [h EXCEPT ![w].pc = "done", ![w].last = "contended",
                              ![w].nRetry = @ + 1]
    /\ UNCHANGED <<status, entryQ, timers, blocking, faults>>
    /\ UNCHANGED <<taskVars, ctlVars>>

\* the spin-wait of flush_session_message_blocking succeeds
\* (a failed attempt sleeps and tries again: no state change)
BlockingLock(w) ==
    /\ h[w].pc = "lock"
    /\ h[w].kind = "blocking"
    /\ check_redis_lock_or_set(lock)
    /\ lock' = w
    /\ h' = [h EXCEPT ![w].pc = "claim"]
    /\ UNCHANGED <<status, entryQ, retryQ, timers, blocking, faults>>
    /\ UNCHANGED <<taskVars, ctlVars>>

\* the handler leaves process_session_pending_message
Leave(rec, r, exc) == [rec EXCEPT !.pc = "release", !.r = r, !.exc = exc]

\* batch claim of process_session_pending_message (first transaction)
Claim(w) ==
    /\ h[w].pc = "claim"
    /\ LET ids == get_message_ids(status, ClaimLimit, TRUE) IN
        \/ \* nothing pending: return Result.resolve(None)
           /\ ids = {}
           /\ NoFault
           /\ status' = status
           /\ h' = [h EXCEPT ![w] = Leave(@, "ok", FALSE)]
        \/ \* the ids are marked running and the transaction commits
           /\ ids # {}
           /\ NoFault
           /\ status' = update_message_status_to(status, ids, "running")
           /\ h' = [h EXCEPT ![w].pc = "hydrate", ![w].ids = ids,
                             ![w].claimed = TRUE]
        \/ \* get_message_ids raises: pending_message_ids is None, re-raise
           /\ Fault
           /\ status' = status
           /\ h' = [h EXCEPT ![w] = Leave(@, "none", TRUE)]
        \/ \* get_message_ids gives an error result: `return r` (in the blocking
           \* flush also: get_project_config gives an error result, `return r`)
           /\ Fault
           /\ status' = status
           /\ h' = [h EXCEPT ![w] = Leave(@, "err", FALSE)]
        \/ \* the status write or the commit raises after the ids were bound:
           \* rollback, then `except` marks the ids failed and re-raises
           /\ ids # {}
           /\ Fault
           /\ status' = update_message_status_to(status, ids, "failed")
           /\ h' = [h EXCEPT ![w] = Leave([@ EXCEPT !.ids = ids], "none", TRUE)]
    /\ UNCHANGED <<entryQ, retryQ, timers, lock, blocking>>
    /\ UNCHANGED <<taskVars, ctlVars>>

\* hydration of the batch and of the previous messages (second transaction)
Hydrate(w) ==
    /\ h[w].pc = "hydrate"
    /\ \/ /\ NoFault
          /\ status' = status
          /\ h' = [h EXCEPT ![w].pc = "agent"]
       \/ \* fetch_messages_data_by_ids or fetch_previous_messages_by_datetime
          \* gives an error result: `return r`
          /\ Fault
          /\ status' = status
          /\ h' = [h EXCEPT ![w] = Leave(@, "err", FALSE)]
       \/ \* the session scope raises: `except` marks the batch failed, re-raise
          /\ Fault
          /\ status' = update_message_status_to(status, h[w].ids, "failed")
          /\ h' = [h EXCEPT ![w] = Leave(@, "none", TRUE)]
    /\ UNCHANGED <<entryQ, retryQ, timers, lock, blocking>>
    /\ UNCHANGED <<taskVars, ctlVars>>

\* AT.task_agent_curd runs; a consumer's handler may hit the outer timeout
Agent(w) ==
    /\ h[w].pc = "agent"
    /\ \/ /\ NoFault
          /\ status' = status
          /\ h' = [h EXCEPT ![w].pc = "final", ![w].r = "ok"]
       \/ \* the agent gives an error result
          /\ Fault
          /\ status' = status
          /\ h' = [h EXCEPT ![w].pc = "final", ![w].r = "err"]
       \/ \* the agent raises: `except` marks the batch failed, re-raise
          /\ Fault
          /\ status' = update_message_status_to(status, h[w].ids, "failed")
          /\ h' = [h EXCEPT ![w] = Leave(@, "none", TRUE)]
       \/ \* asyncio.wait_for cancels the handler: CancelledError is not an
          \* Exception, only the finally blocks run
          /\ h[w].kind \in {"insert", "buffer"}
          /\ Fault
          /\ status' = status
          /\ h' = [h EXCEPT ![w] = [Leave(@, "none", TRUE) EXCEPT !.cancelled = TRUE]]
    /\ UNCHANGED <<entryQ, retryQ, timers, lock, blocking>>
    /\ UNCHANGED <<taskVars, ctlVars>>

\* final status write (third transaction) and `return r`
FinalWrite(w) ==
    /\ h[w].pc = "final"
    /\ \/ /\ NoFault
          /\ status' = update_message_status_to(status, h[w].ids, AfterStatus(h[w].r))
          /\ h' = [h EXCEPT ![w] = Leave(@, h[w].r, FALSE)]
       \/ \* the write or the commit raises: rollback, `except` marks failed
          /\ Fault
          /\ status' = update_message_status_to(status, h[w].ids, "failed")
          /\ h' = [h EXCEPT ![w] = Leave(@, "none", TRUE)]
    /\ UNCHANGED <<entryQ, retryQ, timers, lock, blocking>>
    /\ UNCHANGED <<taskVars, ctlVars>>

\* faulty variant: the key is left to its TTL
release_redis_lock_Kept(l, w) == l

\* release_redis_lock: deletes the key, whoever set it
release_redis_lock(l, w) == 0

\* the `finally` of the three lock holders
Release(w) ==
    /\ h[w].pc = "release"
    /\ lock' = release_redis_lock(lock, w)
    /\ h' = [h EXCEPT ![w].pc = "done", ![w].last = "flushed"]
    /\ UNCHANGED <<status, entryQ, retryQ, timers, blocking, faults>>
    /\ UNCHANGED <<taskVars, ctlVars>>

\* the key's TTL (session_message_processing_timeout_seconds) runs out while
\* its setter is still waiting for the LLM
LockExpire ==
    /\ lock # 0
    /\ h[lock].pc = "agent"
    /\ lock' = 0
    /\ UNCHANGED <<status, entryQ, retryQ, timers, h, blocking, faults>>
    /\ UNCHANGED <<taskVars, ctlVars>>

\* _process_message after the handler returned or raised: ack, retry or reject;
\* flush_session_message_blocking returns to its caller
Settle(w) ==
    /\ h[w].pc = "done"
    /\ IF h[w].kind # "blocking" /\ h[w].exc /\ h[w].attempt < max_retries
       THEN h' = [h EXCEPT ![w] = Invoke(h[w].kind, h[w].body, h[w].attempt + 1)]
       ELSE h' = [h EXCEPT ![w] = IdleH]
    /\ UNCHANGED <<status, entryQ, retryQ, timers, lock, blocking, faults>>
    /\ UNCHANGED <<taskVars, ctlVars>>

Next ==
    \/ Ingest
    \/ \E w \in Workers, m \in Msgs : DeliverInsert(w, m)
    \/ \E w \in Workers, m \in Msgs : DeliverRetry(w, m)
    \/ \E w \in Workers, m \in Msgs : DeliverBuffer(w, m)
    \/ \E w \in Workers : CallBlocking(w)
    \/ \E w \in Workers : LatestCheck(w)
    \/ \E w \in Workers : ThresholdCheck(w)
    \/ \E w \in Workers : InsertLock(w)
    \/ \E w \in Workers : BufferLock(w)
    \/ \E w \in Workers : BlockingLock(w)
    \/ \E w \in Workers : Claim(w)
    \/ \E w \in Workers : Hydrate(w)
    \/ \E w \in Workers : Agent(w)
    \/ \E w \in Workers : FinalWrite(w)
    \/ \E w \in Workers : Release(w)
    \/ \E w \in Workers : Settle(w)
    \/ LockExpire

Spec == Init /\ [][Next]_vars

\* ----------------------------------------------------------------------
\* The overflow scenario: a backlog of n pending messages (more than the
\* claim limit) whose earlier notifications were dropped by the latest-wins
\* check, the newest notification still queued, and no infrastructure fault.
InitBacklog ==
    /\ \E n \in Msgs :
          /\ n > ClaimLimit
          /\ status = [m \in Msgs |-> IF m <= n THEN "pending" ELSE "none"]
          /\ entryQ = [m \in Msgs |-> IF m = n THEN 1 ELSE 0]
    /\ retryQ = [m \in Msgs |-> 0]
    /\ timers = [m \in Msgs |-> 0]
    /\ lock = 0
    /\ h = [w \in Workers |-> IdleH]
    /\ blocking = 0
    /\ faults = MaxFaults
    /\ TaskInit
    /\ CtlInit

\* a step of the handler task w
Step(w) ==
    \/ LatestCheck(w)
    \/ ThresholdCheck(w)
    \/ InsertLock(w)
    \/ BufferLock(w)
    \/ BlockingLock(w)
    \/ Claim(w)
    \/ Hydrate(w)
    \/ Agent(w)
    \/ FinalWrite(w)
    \/ Release(w)
    \/ Settle(w)

NextBacklog ==
    \/ \E w \in Workers, m \in Msgs : DeliverInsert(w, m)
    \/ \E w \in Workers, m \in Msgs : DeliverRetry(w, m)
    \/ \E w \in Workers, m \in Msgs : DeliverBuffer(w, m)
    \/ \E w \in Workers : CallBlocking(w)
    \/ \E w \in Workers : Step(w)
    \/ LockExpire

\* the event loop runs every ready handler task; the broker delivers every
\* queued notification, dead-letters every parked copy when its TTL is over,
\* and every sleeping waiting_for_message_notify wakes up
Fairness ==
    /\ \A w \in Workers : WF_vars(Step(w))
    /\ \A m \in Msgs : WF_vars(\E w \in Workers : DeliverInsert(w, m))
    /\ \A m \in Msgs : WF_vars(\E w \in Workers : DeliverRetry(w, m))
    /\ \A m \in Msgs : WF_vars(\E w \in Workers : DeliverBuffer(w, m))

LiveSpec == InitBacklog /\ [][NextBacklog]_vars /\ Fairness

\* ----------------------------------------------------------------------
\* Arrivals without faults: ingress creates messages and publishes their
\* notifications at any moment, also while a flush holds the session lock
\* or an idle timer sleeps; no handler raises, times out or crashes.
InitArrival ==
    /\ status = [m \in Msgs |-> "none"]
    /\ entryQ = [m \in Msgs |-> 0]
    /\ retryQ = [m \in Msgs |-> 0]
    /\ timers = [m \in Msgs |-> 0]
    /\ lock = 0
    /\ h = [w \in Workers |-> IdleH]
    /\ blocking = 0
    /\ faults = MaxFaults
    /\ TaskInit
    /\ CtlInit

NextArrival ==
    \/ Ingest
    \/ \E w \in Workers, m \in Msgs : DeliverInsert(w, m)
    \/ \E w \in Workers, m \in Msgs : DeliverRetry(w, m)
    \/ \E w \in Workers, m \in Msgs : DeliverBuffer(w, m)
    \/ \E w \in Workers : CallBlocking(w)
    \/ \E w \in Workers : Step(w)
    \/ LockExpire

ArrivalSpec == InitArrival /\ [][NextArrival]_vars /\ Fairness

\* ----------------------------------------------------------------------
\* The task agent: task_agent_curd and the handlers of its tools, for the
\* flushes of one session, one after the other. Every tool call runs in a
\* transaction of its own, which commits when the handler returns a result
\* and rolls back when it raises.

\* integers the LLM supplies as after_task_order / task_order
OrderArgs == (-1)..MaxArg
\* task_status arguments ("none": the argument is absent, the call only
\* carries a task_description)
StatusArgs == {"none", "pending", "success", "failed"}
\* message_ids arguments (index MaxBatch is past the end of the batch)
MsgArgs == SUBSET (0..MaxBatch)

\* the tool call is over: its result is appended to tool_response, or
\* task_agent_curd returns Result.reject when the call raised
Called(res) ==
    [loop EXCEPT !.calls = @ + 1, !.res = res,
                 !.pc = IF res = "fatal" THEN "idle" ELSE "tools"]

\* process_session_pending_message calls task_agent_curd with a new batch
StartFlush ==
    /\ loop.pc = "idle"
    /\ loop.flushes < MaxFlushes
    /\ loop' = [IdleLoop EXCEPT !.pc = "llm", !.flushes = loop.flushes + 1]
    /\ link' = [i \in BatchIdx |-> 0]
    /\ ctx' = NoCtx
    /\ UNCHANGED <<tasks, events, dg>>
    /\ UNCHANGED <<bufVars, ctlVars>>

\* llm_complete returns tool calls: `USE_CTX = None` before the first one
LLMCallsTools ==
    /\ loop.pc = "llm"
    /\ loop.iter < max_iterations
    /\ loop' = [loop EXCEPT !.pc = "tools", !.calls = 0]
    /\ ctx' = NoCtx
    /\ UNCHANGED <<tasks, link, events, dg>>
    /\ UNCHANGED <<bufVars, ctlVars>>

\* llm_complete returns no tool call (or only `finish`, or an error), or
\* the iterations are used up: task_agent_curd returns
LLMStops ==
    /\ loop.pc = "llm"
    /\ loop' = [loop EXCEPT !.pc = "idle"]
    /\ UNCHANGED <<tasks, link, ctx, events, dg>>
    /\ UNCHANGED <<bufVars, ctlVars>>

\* the tool calls of the response are done: `finish` was among them, or
\* the next iteration starts
EndTurn(finish) ==
    /\ loop.pc = "tools"
    /\ loop.calls >= 1
    /\ loop' = IF finish THEN [loop EXCEPT !.pc = "idle"]
               ELSE [loop EXCEPT !.pc = "llm", !.iter = @ + 1]
    /\ UNCHANGED <<tasks, link, ctx, events, dg>>
    /\ UNCHANGED <<bufVars, ctlVars>>

\* NewTaskComplete bodies published so far
Published == LET RECURSIVE Sum(_) 
                 Sum(n) == IF n = 0 THEN 0 ELSE events[n] + Sum(n - 1)
             IN Sum(MaxTasks)

\* a tool call can be made
CanCall == loop.pc = "tools" /\ loop.calls < MaxCalls

\* insert_task_handler: no check of after_task_order but the assert of
\* TD.insert_task; NEED_UPDATE_CTX drops the context afterwards
InsertTaskCall(after) ==
    /\ CanCall
    /\ IF after < 0
       THEN \* AssertionError: rollback, `except Exception` rejects
            /\ tasks' = tasks
            /\ ctx' = build_task_ctx(ctx, tasks)
            /\ loop' = Called("fatal")
       ELSE /\ \E t \in TaskIds : ~tasks[t].live
            /\ LET tk == insert_task(tasks, after, NewTaskId(tasks)) IN
                IF uq_session_id_order(tk)
                THEN /\ tasks' = tk
                     /\ ctx' = NextCtx("insert_task", build_task_ctx(ctx, tasks))
                     /\ loop' = Called("created")
                ELSE \* IntegrityError at the flush: rollback, rejected
                     /\ tasks' = tasks
                     /\ ctx' = build_task_ctx(ctx, tasks)
                     /\ loop' = Called("fatal")
    /\ UNCHANGED <<link, events, dg>>
    /\ UNCHANGED <<bufVars, ctlVars>>

\* update_task_handler
UpdateTaskCall(order, st) ==
    /\ CanCall
    /\ LET c == build_task_ctx(ctx, tasks) IN
        /\ ctx' = c
        /\ IF order = 0
           THEN \* `if not task_order`
                /\ UNCHANGED <<tasks, events>>
                /\ loop' = Called("must_provide")
           ELSE IF order > Len(c.ids) \/ order < 1
           THEN /\ UNCHANGED <<tasks, events>>
                /\ loop' = Called("out_of_range")
           ELSE LET id == c.ids[order] IN
                /\ SendsComplete(st) => Published < MaxEvents
                /\ tasks' = update_task(tasks, id, st)
                /\ events' = IF SendsComplete(st) THEN Inc(events, id) ELSE events
                /\ loop' = Called("updated")
    /\ UNCHANGED <<link, dg>>
    /\ UNCHANGED <<bufVars, ctlVars>>

\* _append_messages_to_task_handler
AppendCall(order, idxs) ==
    /\ CanCall
    /\ LET c == build_task_ctx(ctx, tasks) IN
        /\ ctx' = c
        /\ IF order = 0
           THEN /\ link' = link
                /\ loop' = Called("must_provide")
           ELSE IF order > Len(c.ids) \/ order < 1
           THEN /\ link' = link
                /\ loop' = Called("out_of_range")
           ELSE IF actually_message_ids(idxs) = {}
           THEN /\ link' = link
                /\ loop' = Called("no_messages")
           ELSE IF c.st[order] \in {"success", "failed"}
           THEN /\ link' = link
                /\ loop' = Called("already_closed")
           ELSE /\ link' = append_messages_to_task(link, actually_message_ids(idxs),
                                                   c.ids[order])
                /\ loop' = Called("appended")
    /\ UNCHANGED <<tasks, events, dg>>
    /\ UNCHANGED <<bufVars, ctlVars>>

\* _append_messages_to_planning_section_handler
AppendPlanningCall(idxs) ==
    /\ CanCall
    /\ ctx' = build_task_ctx(ctx, tasks)
    /\ IF actually_message_ids(idxs) = {}
       THEN /\ UNCHANGED <<tasks, link>>
            /\ loop' = Called("no_messages")
       ELSE IF fetch_planning_task(tasks) # 0
       THEN /\ tasks' = tasks
            /\ link' = append_messages_to_task(link, actually_message_ids(idxs),
                                               fetch_planning_task(tasks))
            /\ loop' = Called("planned")
       ELSE /\ \E t \in TaskIds : ~tasks[t].live
            /\ tasks' = [tasks EXCEPT ![NewTaskId(tasks)] = PlanningRow]
            /\ link' = append_messages_to_task(link, actually_message_ids(idxs),
                                               NewTaskId(tasks))
            /\ loop' = Called("planned")
    /\ UNCHANGED <<events, dg>>
    /\ UNCHANGED <<bufVars, ctlVars>>

TaskNext ==
    \/ StartFlush
    \/ LLMCallsTools
    \/ LLMStops
    \/ \E finish \in BOOLEAN : EndTurn(finish)
    \/ \E after \in OrderArgs : InsertTaskCall(after)
    \/ \E order \in OrderArgs, st \in StatusArgs : UpdateTaskCall(order, st)
    \/ \E order \in OrderArgs, idxs \in MsgArgs : AppendCall(order, idxs)
    \/ \E idxs \in MsgArgs : AppendPlanningCall(idxs)

TaskSpec == Init /\ [][TaskNext]_vars

\* ----------------------------------------------------------------------
\* The consumer of space.task.new.complete: concurrent calls of
\* space_complete_new_task for the completion events of a session whose
\* flushes are over. Each call runs set_task_space_digested in a transaction
\* of its own (READ COMMITTED: a SELECT sees the rows as last committed).

\* the session after its flushes: n tasks, all success, and the completion
\* events the update_task calls published for them
DigestInit ==
    /\ status = [m \in Msgs |-> "none"]
    /\ entryQ = [m \in Msgs |-> 0]
    /\ retryQ = [m \in Msgs |-> 0]
    /\ timers = [m \in Msgs |-> 0]
    /\ lock = 0
    /\ h = [w \in Workers |-> IdleH]
    /\ blocking = 0
    /\ faults = 0
    /\ \E n \in TaskIds :
          tasks = [t \in TaskIds |->
                     IF t <= n
                     THEN [live |-> TRUE, order |-> t, status |-> "success",
                           planning |-> FALSE, space_digested |-> FALSE]
                     ELSE NoTask]
    /\ events \in [TaskIds -> 0..MaxEvents]
    /\ \A t \in TaskIds : events[t] > 0 => tasks[t].live
    /\ Published <= MaxEvents
    /\ link = [i \in BatchIdx |-> 0]
    /\ ctx = NoCtx
    /\ loop = IdleLoop
    /\ dg = [c \in Digesters |-> IdleDg]
    /\ CtlInit

\* the broker delivers a NewTaskComplete body to a free handler task
DigestDeliver(c, t) ==
    /\ dg[c].pc = "idle"
    /\ \A x \in Digesters : x < c => dg[x].pc # "idle"
    /\ events[t] > 0
    /\ events' = Dec(events, t)
    /\ dg' = [dg EXCEPT ![c] = [IdleDg EXCEPT !.pc = "select", !.task = t]]
    /\ UNCHANGED <<tasks, link, ctx, loop>>
    /\ UNCHANGED <<bufVars, ctlVars>>

\* set_task_space_digested: the SELECT of the row, and the early return
\* when space_digested is already true
DigestSelect(c) ==
    /\ dg[c].pc = "select"
    /\ LET seen == tasks[dg[c].task].space_digested IN
        dg' = [dg EXCEPT ![c].seen = seen,
                         ![c].pc = IF seen THEN "done" ELSE "update",
                         ![c].ret = IF seen THEN "true" ELSE "none"]
    /\ UNCHANGED <<tasks, link, ctx, events, loop>>
    /\ UNCHANGED <<bufVars, ctlVars>>

\* set_task_space_digested: `task.space_digested = True`, flush, returns
\* False; the transaction commits when space_complete_new_task leaves its
\* session scope
DigestUpdate(c) ==
    /\ dg[c].pc = "update"
    /\ tasks' = [tasks EXCEPT ![dg[c].task].space_digested = TRUE]
    /\ dg' = [dg EXCEPT ![c].pc = "done", ![c].ret = "false"]
    /\ UNCHANGED <<link, ctx, events, loop>>
    /\ UNCHANGED <<bufVars, ctlVars>>

DigestNext ==
    \/ \E c \in Digesters, t \in TaskIds : DigestDeliver(c, t)
    \/ \E c \in Digesters : DigestSelect(c)
    \/ \E c \in Digesters : DigestUpdate(c)

DigestSpec == DigestInit /\ [][DigestNext]_vars

\* ----------------------------------------------------------------------
\* The control flow of task_agent_curd for one flush: the LLM turns, the
\* `for` loop over the tool calls of a response, and the status the flush
\* writes to the claimed batch afterwards. What the tool handlers do to the
\* task store is the subject of TaskSpec; here a handler returns a text,
\* returns an error result, or raises.

\* function names an LLM response can carry
ToolNames == {"finish", "insert_task", "update_task", "no_such_tool"}

\* the keys of TASK_TOOLS among them
TASK_TOOLS == {"finish", "insert_task", "update_task"}

\* llm_return.tool_calls: the function names, in the order of the response
Responses == UNION {[1..n -> ToolNames] : n \in 0..MaxResponse}

\* task_agent_curd is over: `return` of a result, or an exception leaves it
Returned(r, ret, why) == [r EXCEPT !.pc = "done", !.ret = ret, !.why = why]

\* `while already_iterations < max_iterations:` ... `return Result.resolve(None)`
WhileLoop(r) ==
    IF r.already_iterations < max_iterations
    THEN [r EXCEPT !.pc = "llm"]
    ELSE Returned(r, "ok", "max_iterations")

\* task_agent_curd is called: the tasks and the planning task are fetched
AgentStart ==
    /\ run.pc = "idle"
    /\ \/ run' = WhileLoop(run)
       \/ \* fetch_current_tasks or fetch_planning_task gives an error: `return r`
          run' = Returned(run, "err", "fetch_error")
       \/ \* the session scope raises
          run' = Returned(run, "raised", "raised")
    /\ UNCHANGED notAgent

\* one call of llm_complete and what task_agent_curd does with its result
LLMTurn ==
    /\ run.pc = "llm"
    /\ LET r == [run EXCEPT !.llm_calls = @ + 1] IN
        \/ \* the call raises: as written it omits the positional `prompt`
           \* of llm_complete, which is a TypeError outside every `try`
           run' = Returned(r, "raised", "raised")
        \/ \* llm_complete gives an error result: `return r`
           run' = Returned(r, "err", "llm_error")
        \/ \* a response
           \E calls \in Responses :
              run' = IF calls = <<>>
                     THEN Returned([r EXCEPT !.tool_calls = calls], "ok",
                                   "no_tool_calls")
                     ELSE [r EXCEPT !.pc = "tools", !.tool_calls = calls,
                                    !.at = 1, !.just_finish = FALSE,
                                    !.tool_response = <<>>]
    /\ UNCHANGED notAgent

\* faulty variant: `finish` leaves the `for` loop
AfterFinish_Break(r) == Len(r.tool_calls) + 1

\* `just_finish = True; continue`: the next tool call of the response
AfterFinish(r) == r.at + 1

\* one pass of the `for` loop over the tool calls
Dispatch ==
    /\ run.pc = "tools"
    /\ run.at <= Len(run.tool_calls)
    /\ LET tool_name == run.tool_calls[run.at] IN
        IF tool_name = "finish"
        THEN run' = [run EXCEPT !.just_finish = TRUE, !.at = AfterFinish(run)]
        ELSE IF tool_name \notin TASK_TOOLS
        THEN \* KeyError: Result.reject("Tool ... not found")
             run' = Returned(run, "err", "tool_not_found")
        ELSE \/ \* the handler returns a text, appended to tool_response
                run' = [run EXCEPT !.tool_response = Append(@, tool_name),
                                   !.at = @ + 1]
             \/ \* the handler returns an error result (`return r`) or
                \* raises (Result.reject("Tool ... error"))
                run' = Returned(run, "err", "tool_error")
    /\ UNCHANGED notAgent

\* after the `for` loop: `if just_finish: break`, else the next iteration
TurnDone ==
    /\ run.pc = "tools"
    /\ run.at > Len(run.tool_calls)
    /\ run' = IF run.just_finish
              THEN Returned(run, "ok", "finish")
              ELSE WhileLoop([run EXCEPT !.already_iterations = @ + 1])
    /\ UNCHANGED notAgent

\* process_session_pending_message after task_agent_curd: the final status
\* write, or the write of its `except` when the agent raised
MarkBatch ==
    /\ run.pc = "done"
    /\ run' = [run EXCEPT !.pc = "marked",
                          !.batch = IF run.ret = "raised" THEN "failed"
                                    ELSE AfterStatus(run.ret)]
    /\ UNCHANGED notAgent

AgentNext ==
    \/ AgentStart
    \/ LLMTurn
    \/ Dispatch
    \/ TurnDone
    \/ MarkBatch

AgentSpec == Init /\ [][AgentNext]_vars

\* ----------------------------------------------------------------------
\* The broker client: _process_message for the deliveries of one consumer
\* (the retry loop inside `async with message.process(requeue=False,
\* ignore_processed=True)`) and stop().

\* bodies: valid, not JSON, JSON that body_pydantic_type refuses
Bodies == {"valid", "bad_json", "bad_schema"}

\* how a handler invocation ends: it returns, raises an Exception, runs
\* into asyncio.wait_for's timeout, or raises a pydantic ValidationError
Outcomes == {"ok", "raise", "timeout", "validation_error"}

\* `_wait_for = config.retry_delay * (retry_count**2)`
Backoff(n) == retry_delay * (n * n)

\* `await message.reject(requeue=False); return`
Rejected(r) == [r EXCEPT !.pc = "settled", !.rejects = @ + 1]

\* `return` out of message.process: the context acks what is unprocessed
Acked(r) == [r EXCEPT !.pc = "settled", !.acks = @ + 1]

\* `except Exception`: count the attempt, then sleep and go round the
\* `while retry_count <= max_retries` loop again, or reject
Failed(r) ==
    LET n == r.retry_count + 1 IN
    IF n <= max_retries
    THEN [r EXCEPT !.pc = "sleep", !.retry_count = n,
                   !.waits = Append(@, Backoff(n))]
    ELSE Rejected([r EXCEPT !.retry_count = n])

\* one pass of the retry loop up to its first await: json.loads and
\* model_validate of the body, then the handler is called
Try(r) ==
    IF r.body = "bad_json"
    THEN \* JSONDecodeError is an Exception, not a ValidationError
         Failed(r)
    ELSE IF r.body = "bad_schema"
    THEN \* `except ValidationError`
         Rejected(r)
    ELSE [r EXCEPT !.pc = "handler", !.invoked = @ + 1]

\* _consume_queue receives a delivery and creates its _process_message
\* task, which runs up to its first await
Consume(d, body) ==
    /\ mq.pc = "running"
    /\ dl[d].pc = "queued"
    /\ \A x \in Deliveries : x < d => dl[x].pc # "queued"
    /\ dl' = [dl EXCEPT ![d] = Try([IdleDl EXCEPT !.body = body])]
    /\ UNCHANGED mq
    /\ UNCHANGED notMq

\* `await asyncio.wait_for(config.handler(validated_body, message), ...)` ends
HandlerEnd(d, outcome) ==
    /\ dl[d].pc = "handler"
    /\ LET r == [dl[d] EXCEPT !.outcomes = Append(@, outcome)] IN
        dl' = [dl EXCEPT ![d] =
                 IF outcome = "ok" THEN Acked(r)
                 ELSE IF outcome = "validation_error"
                 THEN \* the `except ValidationError` of the body also
                      \* encloses the handler call
                      Rejected(r)
                 ELSE Failed(r)]
    /\ UNCHANGED mq
    /\ UNCHANGED notMq

\* `await asyncio.sleep(_wait_for)` is over: the next pass of the loop
Wake(d) ==
    /\ dl[d].pc = "sleep"
    /\ dl' = [dl EXCEPT ![d] = Try(@)]
    /\ UNCHANGED mq
    /\ UNCHANGED notMq

\* the _process_message tasks stop() finds in _processing_tasks
InFlight(d) == dl[d].pc \in {"handler", "sleep"}

\* task.cancel(): CancelledError is not an Exception, it leaves the retry
\* loop and message.process rejects the delivery
Cancelled(r) == [Rejected(r) EXCEPT !.cancelled = TRUE]

\* stop(): the shutdown event is set, the consumer loops are cancelled and
\* awaited
StopLoops ==
    /\ mq.pc = "running"
    /\ mq' = [mq EXCEPT !.pc = "loops_stopped"]
    /\ UNCHANGED dl
    /\ UNCHANGED notMq

\* stop(): every task in _processing_tasks is cancelled, then awaited
StopTasks ==
    /\ mq.pc = "loops_stopped"
    /\ mq' = [mq EXCEPT !.pc = "tasks_stopped"]
    /\ dl' = [d \in Deliveries |->
                IF InFlight(d) THEN Cancelled(dl[d]) ELSE dl[d]]
    /\ UNCHANGED notMq

\* stop(): disconnect()
Disconnect ==
    /\ mq.pc = "tasks_stopped"
    /\ mq' = [mq EXCEPT !.pc = "stopped", !.conn = "closed"]
    /\ UNCHANGED dl
    /\ UNCHANGED notMq

MqNext ==
    \/ \E d \in Deliveries, body \in Bodies : Consume(d, body)
    \/ \E d \in Deliveries, outcome \in Outcomes : HandlerEnd(d, outcome)
    \/ \E d \in Deliveries : Wake(d)
    \/ StopLoops
    \/ StopTasks
    \/ Disconnect

MqSpec == Init /\ [][MqNext]_vars

\* ----------------------------------------------------------------------
\* The batch of one flush: from the claim of process_session_pending_message
\* over fetch_messages_data_by_ids to the prompt and the message index of
\* the agent, for a session with any mix of message statuses.

\* the value MD.get_message_ids(limit, asc=True) gives: the ids of FirstIds
\* in ascending created_at order
pending_message_ids(st) ==
    LET S == get_message_ids(st, ClaimLimit, TRUE)
        n == Cardinality(S)
    IN IF n = 0 THEN <<>>
       ELSE CHOOSE q \in [1..n -> S] : \A i, j \in 1..n : i < j => q[i] < q[j]

\* the orders in which `select(Message).where(Message.id.in_(ids))` can
\* give the rows
RowOrders(ids) ==
    LET n == Len(ids)
        S == {ids[i] : i \in 1..n}
    IN {q \in [1..n -> S] : \A i, j \in 1..n : i # j => q[i] # q[j]}

\* faulty variant: the rows are handed on as the database gave them
fetch_messages_data_by_ids_AsRead(rows, ids) == rows

\* fetch_messages_data_by_ids: the rows are put in a dict by id and read
\* back in the order of message_ids
fetch_messages_data_by_ids(rows, ids) ==
    LET messages_dict == [m \in {rows[i] : i \in 1..Len(rows)} |-> m]
    IN [i \in 1..Len(ids) |-> messages_dict[ids[i]]]

\* pack_current_message_with_ids: `<message id={i}>` from enumerate(messages)
pack_current_message_with_ids(messages) ==
    [i \in 1..Len(messages) |-> [id |-> i - 1, message |-> messages[i]]]

\* `message_ids_index=[m.message_id for m in messages]`
message_ids_index(messages) == [i \in 1..Len(messages) |-> messages[i]]

\* `ctx.message_ids_index[i]` under `if i < len(ctx.message_ids_index)`:
\* an index past the end is skipped (0), a negative index counts from the
\* end of the list, and one before its start raises IndexError (-1)
ResolveIndex(index, i) ==
    IF ~(i < Len(index)) THEN 0
    ELSE IF i >= 0 THEN index[i + 1]
    ELSE IF i >= -Len(index) THEN index[Len(index) + i + 1]
    ELSE -1

\* a session whose messages, created in the order of their ids, are
\* pending or already processed
BatchInit ==
    /\ \E n \in Msgs :
          status \in [Msgs -> {"none", "pending", "success", "failed"}]
          /\ \A m \in Msgs : status[m] = "none" <=> m > n
    /\ entryQ = [m \in Msgs |-> 0]
    /\ retryQ = [m \in Msgs |-> 0]
    /\ timers = [m \in Msgs |-> 0]
    /\ lock = 0
    /\ h = [w \in Workers |-> IdleH]
    /\ blocking = 0
    /\ faults = 0
    /\ TaskInit
    /\ CtlInit

\* the first transaction of process_session_pending_message
BatchClaim ==
    /\ bt.pc = "idle"
    /\ LET ids == pending_message_ids(status) IN
        IF ids = <<>>
        THEN /\ bt' = [bt EXCEPT !.pc = "empty"]
             /\ status' = status
        ELSE /\ bt' = [bt EXCEPT !.pc = "claimed", !.ids = ids]
             /\ status' = update_message_status_to(
                             status, {ids[i] : i \in 1..Len(ids)}, "running")
    /\ UNCHANGED <<entryQ, retryQ, timers, lock, h, blocking, faults>>
    /\ UNCHANGED <<taskVars, agentVars, mqVars, txVars>>

\* the second transaction: fetch_messages_data_by_ids, and messages_data
\* built in the order of its result
BatchFetch ==
    /\ bt.pc = "claimed"
    /\ \E rows \in RowOrders(bt.ids) :
          bt' = [bt EXCEPT !.pc = "fetched", !.rows = rows,
                          !.messages = fetch_messages_data_by_ids(rows, bt.ids)]
    /\ UNCHANGED notBatch

\* task_agent_curd packs the prompt; build_task_ctx makes the index
BatchPack ==
    /\ bt.pc = "fetched"
    /\ bt' = [bt EXCEPT !.pc = "agent",
                        !.prompt = pack_current_message_with_ids(bt.messages),
                        !.index = message_ids_index(bt.messages)]
    /\ UNCHANGED notBatch

\* append_messages_to_planning_section is called with message_ids = [i]:
\* the handler resolves the index and TD.append_messages_to_task writes
\* the task_id of the message; an IndexError is fatal for the flush
BatchResolve(i) ==
    /\ bt.pc = "agent"
    /\ LET m == ResolveIndex(bt.index, i) IN
        bt' = [bt EXCEPT !.asked = i, !.resolved = m,
                         !.linked = IF m > 0 THEN @ \cup {m} ELSE @,
                         !.pc = IF m < 0 THEN "fatal" ELSE @]
    /\ UNCHANGED notBatch

BatchNext ==
    \/ BatchClaim
    \/ BatchFetch
    \/ BatchPack
    \/ \E i \in (-ClaimLimit - 1)..ClaimLimit : BatchResolve(i)

BatchSpec == BatchInit /\ [][BatchNext]_vars

\* ----------------------------------------------------------------------
\* One flush of the task agent at the level of its transactions. Every tool
\* call runs inside `async with DB_CLIENT.get_session_context()`: the
\* statements of the handler are flushed to the open transaction, which
\* commits when the scope is left normally and rolls back when an exception
\* leaves it. Other connections (READ COMMITTED) see the committed rows
\* only. update_task starts send_complete_new_task as a task of its own,
\* and the consumer of space.task.new.complete reads the task it names.

\* what a statement of another connection reads
read_committed(rec) == rec.committed

\* faulty variant: what was flushed before the exception stays
Rollback_Partial(rec) == rec.work

\* faulty variant: the commits of the earlier tool calls are undone as well
Rollback_Flush(rec) == rec.start

\* `await session.rollback()`: the rows are as last committed
Rollback(rec) == rec.committed

\* insert_task step 1: `.where(Task.order > after_order).values(order=-Task.order)`
SignFlip(tk, after_order) ==
    [t \in TaskIds |-> IF tk[t].live /\ tk[t].order > after_order
                       THEN [tk[t] EXCEPT !.order = -@] ELSE tk[t]]

\* insert_task step 2: `.where(Task.order < 0).values(order=-Task.order + 1)`
Renumbered(tk) ==
    [t \in TaskIds |-> IF tk[t].live /\ tk[t].order < 0
                       THEN [tk[t] EXCEPT !.order = Renumber(@)] ELSE tk[t]]

\* insert_task step 3: `Task(order=after_order + 1, status="pending")`
AddTask(tk, after_order, id) ==
    [tk EXCEPT ![id] = [live |-> TRUE, order |-> after_order + 1,
                        status |-> "pending", planning |-> FALSE,
                        space_digested |-> FALSE]]

\* an exception leaves the session scope of a tool call: rollback, and the
\* `except` of the tool loop returns Result.reject
Raised(rec) ==
    [rec EXCEPT !.committed = Rollback(rec), !.work = Rollback(rec),
                !.pc = "returned", !.res = "fatal", !.ret = "err",
                !.calls = @ + 1]

\* the handler returned a result: the scope is about to commit
Handled(rec, tool_name, res) ==
    [rec EXCEPT !.pc = "exit", !.tool = tool_name, !.res = res]

\* faulty variant: the exception of the publish reaches the agent
publish_error_Raised(rec) == [rec EXCEPT !.pc = "returned", !.ret = "err"]

\* an exception of send_complete_new_task ends the task asyncio.create_task
\* made for it; nothing awaits that task
publish_error(rec) == rec

\* a session with n tasks before the flush
TxInit ==
    /\ status = [m \in Msgs |-> "none"]
    /\ entryQ = [m \in Msgs |-> 0]
    /\ retryQ = [m \in Msgs |-> 0]
    /\ timers = [m \in Msgs |-> 0]
    /\ lock = 0
    /\ h = [w \in Workers |-> IdleH]
    /\ blocking = 0
    /\ faults = 0
    /\ TaskInit
    /\ run = IdleRun
    /\ dl = [d \in Deliveries |-> IdleDl]
    /\ mq = RunningMq
    /\ bt = IdleBt
    /\ \E n \in 0..(MaxTasks - 1) :
          LET db == [EmptyDb EXCEPT
                       !.tasks = [t \in TaskIds |->
                                    IF t <= n
                                    THEN [NoTask EXCEPT !.live = TRUE, !.order = t]
                                    ELSE NoTask]]
          IN tx = [IdleTx EXCEPT !.committed = db, !.work = db, !.start = db]

\* process_session_pending_message calls task_agent_curd and the LLM
\* answers with tool calls
TxStart ==
    /\ tx.pc = "idle"
    /\ tx' = [tx EXCEPT !.pc = "loop"]
    /\ UNCHANGED notTx

\* the next tool call of the response can be dispatched
TxCanCall == tx.pc = "loop" /\ tx.calls < MaxCalls

\* insert_task: the scope opens, the context is built and TD.insert_task
\* locks the rows of the session
InsertBegin(after) ==
    /\ TxCanCall
    /\ \E t \in TaskIds : ~tx.work.tasks[t].live
    /\ tx' = [tx EXCEPT !.pc = "flip", !.tool = "insert_task", !.arg = after,
                        !.res = "none",
                        !.ctx = build_task_ctx(tx.ctx, tx.work.tasks)]
    /\ UNCHANGED notTx

\* `assert after_order >= 0`, then step 1 and its flush
InsertFlip ==
    /\ tx.pc = "flip"
    /\ tx' = IF tx.arg < 0 THEN Raised(tx)
             ELSE [tx EXCEPT !.pc = "renumber",
                             !.work.tasks = SignFlip(@, tx.arg)]
    /\ UNCHANGED notTx

\* step 2 and its flush
InsertRenumber ==
    /\ tx.pc = "renumber"
    /\ tx' = [tx EXCEPT !.pc = "add", !.work.tasks = Renumbered(@)]
    /\ UNCHANGED notTx

\* step 3 and its flush (IntegrityError when the order is taken), and the
\* return of the handler
InsertAdd ==
    /\ tx.pc = "add"
    /\ LET tk == AddTask(tx.work.tasks, tx.arg, NewTaskId(tx.work.tasks)) IN
        tx' = IF uq_session_id_order(tk)
              THEN Handled([tx EXCEPT !.work.tasks = tk], "insert_task", "created")
              ELSE Raised(tx)
    /\ UNCHANGED notTx

\* update_task_handler up to its return: TD.update_task and its flush, then
\* asyncio.create_task(send_complete_new_task(...)) for a success
UpdateCall(order, st) ==
    /\ TxCanCall
    /\ LET c == build_task_ctx(tx.ctx, tx.work.tasks)
           rec == [tx EXCEPT !.ctx = c]
       IN IF order = 0
          THEN tx' = Handled(rec, "update_task", "must_provide")
          ELSE IF order > Len(c.ids) \/ order < 1
          THEN tx' = Handled(rec, "update_task", "out_of_range")
          ELSE LET id == c.ids[order] IN
               /\ SendsComplete(st) => tx.pub[id] = "none"
               /\ tx' = Handled(
                          [rec EXCEPT !.arg = id,
                                      !.work.tasks = update_task(@, id, st),
                                      !.pub[id] = IF SendsComplete(st)
                                                  THEN "scheduled" ELSE @,
                                      !.uncommitted = IF SendsComplete(st)
                                                      THEN @ \cup {id} ELSE @],
                          "update_task", "updated")
    /\ UNCHANGED notTx

\* _append_messages_to_task_handler up to its return
AppendTaskCall(order, idxs) ==
    /\ TxCanCall
    /\ LET c == build_task_ctx(tx.ctx, tx.work.tasks)
           rec == [tx EXCEPT !.ctx = c]
           tool_name == "append_messages_to_task"
       IN tx' = IF order = 0
                THEN Handled(rec, tool_name, "must_provide")
                ELSE IF order > Len(c.ids) \/ order < 1
                THEN Handled(rec, tool_name, "out_of_range")
                ELSE IF actually_message_ids(idxs) = {}
                THEN Handled(rec, tool_name, "no_messages")
                ELSE IF c.st[order] \in {"success", "failed"}
                THEN Handled(rec, tool_name, "already_closed")
                ELSE Handled(
                       [rec EXCEPT !.arg = c.ids[order],
                                   !.work.link = append_messages_to_task(
                                       @, actually_message_ids(idxs), c.ids[order])],
                       tool_name, "appended")
    /\ UNCHANGED notTx

\* `tool = TASK_TOOLS[tool_name]` raises KeyError: Result.reject
UnknownToolCall ==
    /\ TxCanCall
    /\ tx' = [tx EXCEPT !.pc = "returned", !.tool = "no_such_tool",
                        !.res = "fatal", !.ret = "err", !.calls = @ + 1]
    /\ UNCHANGED notTx

\* a statement, a flush or the commit of the open session raises
TxFault ==
    /\ tx.pc \in {"flip", "renumber", "add", "exit"}
    /\ tx.raised < MaxFaults
    /\ tx' = Raised([tx EXCEPT !.raised = @ + 1])
    /\ UNCHANGED notTx

\* `await session.commit()` at the end of the scope, and the tool result is
\* appended to tool_response
TxCommit ==
    /\ tx.pc = "exit"
    /\ tx' = [tx EXCEPT !.committed = tx.work, !.pc = "loop", !.calls = @ + 1,
                        !.ctx = NextCtx(tx.tool, @), !.uncommitted = {}]
    /\ UNCHANGED notTx

\* the tool calls of the response are done and the agent returns
TxReturn ==
    /\ tx.pc = "loop"
    /\ tx.calls >= 1
    /\ tx' = [tx EXCEPT !.pc = "returned", !.ret = "ok"]
    /\ UNCHANGED notTx

\* the final status write of process_session_pending_message
TxMark ==
    /\ tx.pc = "returned"
    /\ tx' = [tx EXCEPT !.pc = "done", !.batch = AfterStatus(tx.ret)]
    /\ UNCHANGED notTx

\* send_complete_new_task runs: the body reaches the broker
PublishSent(t) ==
    /\ tx.pub[t] = "scheduled"
    /\ tx' = [tx EXCEPT !.pub[t] = "sent"]
    /\ UNCHANGED notTx

\* MQ_CLIENT.publish raises (no channel, connection lost)
PublishFailed(t) ==
    /\ tx.pub[t] = "scheduled"
    /\ tx' = publish_error([tx EXCEPT !.pub[t] = "failed"])
    /\ UNCHANGED notTx

\* space_complete_new_task: TD.fetch_task reads the row the body names
ConsumerFetch(t) ==
    /\ tx.pub[t] = "sent"
    /\ tx' = [tx EXCEPT !.pub[t] = "fetched",
                        !.seen[t] = read_committed(tx).tasks[t].status]
    /\ UNCHANGED notTx

\* space_complete_new_task: set_task_space_digested (its UPDATE waits for
\* a transaction that has written the row) and its commit
ConsumerDigest(t) ==
    /\ tx.pub[t] = "fetched"
    /\ tx.work.tasks[t] = tx.committed.tasks[t]
    /\ tx' = [tx EXCEPT !.pub[t] = "consumed", !.digested[t] = TRUE]
    /\ UNCHANGED notTx

TxNext ==
    \/ TxStart
    \/ \E after \in OrderArgs : InsertBegin(after)
    \/ InsertFlip
    \/ InsertRenumber
    \/ InsertAdd
    \/ \E order \in OrderArgs, st \in StatusArgs : UpdateCall(order, st)
    \/ \E order \in OrderArgs, idxs \in MsgArgs : AppendTaskCall(order, idxs)
    \/ UnknownToolCall
    \/ TxFault
    \/ TxCommit
    \/ TxReturn
    \/ TxMark
    \/ \E t \in TaskIds : PublishSent(t)
    \/ \E t \in TaskIds : PublishFailed(t)
    \/ \E t \in TaskIds : ConsumerFetch(t)
    \/ \E t \in TaskIds : ConsumerDigest(t)

TxSpec == TxInit /\ [][TxNext]_vars

\* ======================================================================
\* Properties
\* ======================================================================
\* a flush is in progress in w: from its batch claim to its final status write
InFlush(w) == h[w].claimed /\ h[w].pc \in {"hydrate", "agent", "final"}

\* w takes a step of its handler
Acts(w) == h'[w] # h[w]

\* everything but the handler records is left alone
NoEffect == UNCHANGED <<status, entryQ, retryQ, timers, lock>>

\* m is the session's newest pending message
NewestPending(m) ==
    /\ status[m] = "pending"
    /\ \A x \in Msgs : x > m => status[x] # "pending"

\* C1: at every moment at most one flush of the session is in progress,
\* also when a flush outlasts the TTL of the session lock.
C1_AtMostOneFlush == Cardinality({w \in Workers : InFlush(w)}) <= 1

\* C2: when process_session_pending_message returns a result after having
\* claimed a batch, every message of the batch is success if the result is
\* OK and failed otherwise.
C2_ReturnedBatchSettled ==
    \A w \in Workers :
        (h[w].pc \in {"release", "done"} /\ h[w].claimed /\ ~h[w].exc)
            => \A m \in h[w].ids : status[m] = AfterStatus(h[w].r)

\* C3: when a step after the batch claim raises an Exception the claimed
\* batch is failed when the exception leaves the function, and a Claim step
\* that raises without having committed a claim changes no message status.
C3_RaiseMarksFailed ==
    [][\A w \in Workers :
          /\ (Acts(w) /\ h'[w].pc = "release" /\ h'[w].exc /\ ~h'[w].cancelled
                /\ h'[w].claimed)
                => \A m \in h'[w].ids : status'[m] = "failed"
          /\ (Acts(w) /\ h[w].pc = "claim" /\ h'[w].exc /\ ~h'[w].claimed)
                => status' = status]_vars
\* C4: a notification whose message_id is not the newest pending message of
\* the session is a no-op: no lock, no publish, no timer, no status change,
\* and the delivery is acked.
C4_NotLatestIsNoOp ==
    [][\A w \in Workers :
          /\ (Acts(w) /\ h[w].pc = "latest" /\ ~NewestPending(h[w].body))
                => /\ NoEffect
                   /\ h'[w] = [h[w] EXCEPT !.pc = "done", !.last = "dropped"]
                   /\ h[w].nRetry = 0 /\ h[w].nTimer = 0 /\ h[w].ids = {}
          /\ (Acts(w) /\ h[w].pc = "done" /\ h[w].last = "dropped")
                => NoEffect /\ h'[w] = IdleH]_vars

\* a notification is dropped after the flush that processed its message
C4_Witness ==
    \E w \in Workers :
        /\ h[w].pc = "done" /\ h[w].last = "dropped"
        /\ status[h[w].body] \in {"success", "failed"}

\* C5: past the latest-wins check, a pending count >= buffer_max_turns goes
\* straight to the lock attempt and the flush, with no idle timer; only a
\* count < buffer_max_turns takes the idle-delay path.
C5_ThresholdFlush ==
    [][\A w \in Workers :
          /\ (Acts(w) /\ h[w].pc = "count")
                => IF session_message_length(status) >= buffer_max_turns
                   THEN h'[w].pc = "lock" /\ timers' = timers /\ h'[w].nTimer = 0
                   ELSE h'[w].pc = "done" /\ h'[w].last = "timer"
          /\ (Acts(w) /\ h[w].pc = "lock" /\ h[w].kind = "insert")
                => /\ timers' = timers /\ h'[w].nTimer = 0
                   /\ lock = 0 => (lock' = w /\ h'[w].pc = "claim")]_vars

\* a count exactly equal to buffer_max_turns has reached the flush
C5_Witness ==
    \E w \in Workers :
        /\ h[w].kind = "insert" /\ h[w].pc = "hydrate"
        /\ h[w].len = buffer_max_turns /\ h[w].nTimer = 0

\* C6 (as stated): below the threshold the handler only schedules one publish
\* to buffer-process, and the message is not flushed before that delivery
\* unless a newer notification triggers the flush.
C6_FlushedOnlyByNotification ==
    [][\A w \in Workers : \A m \in Msgs :
          (Acts(w) /\ h[w].pc = "claim" /\ timers[m] > 0
             /\ status[m] = "pending" /\ status'[m] = "running")
                => h[w].kind \in {"insert", "buffer"} /\ h[w].body >= m]_vars

\* C6 (amended): below the threshold the handler schedules exactly one
\* publish of its body to buffer-process, acquires no lock and changes no
\* status, and is acked; it claims nothing itself.
C6_IdleDelay ==
    [][\A w \in Workers :
          /\ (Acts(w) /\ h[w].pc = "count"
                /\ session_message_length(status) < buffer_max_turns)
                => /\ timers' = [timers EXCEPT ![h[w].body] = @ + 1]
                   /\ UNCHANGED <<status, entryQ, retryQ, lock>>
                   /\ h'[w].pc = "done" /\ h'[w].last = "timer"
                   /\ h'[w].nTimer = 1 /\ h'[w].nRetry = 0
                   /\ h'[w].ids = {} /\ ~h'[w].exc
          /\ (Acts(w) /\ h[w].pc = "done" /\ h[w].last = "timer")
                => NoEffect /\ h'[w] = IdleH]_vars

\* the idle timer of a sub-threshold notification is scheduled
C6_Witness ==
    \E w \in Workers :
        /\ h[w].pc = "done" /\ h[w].last = "timer"
        /\ timers[h[w].body] = 1 /\ status[h[w].body] = "pending"

\* C7: a consumer that fails to get the session lock publishes exactly one
\* copy of its notification to insert-retry, changes no message, and returns
\* normally (ack).
C7_ContentionParks ==
    [][\A w \in Workers :
          /\ (Acts(w) /\ h[w].pc = "lock" /\ h[w].kind \in {"insert", "buffer"}
                /\ lock # 0)
                => /\ retryQ' = [retryQ EXCEPT ![h[w].body] = @ + 1]
                   /\ UNCHANGED <<status, entryQ, timers, lock>>
                   /\ h'[w].pc = "done" /\ h'[w].last = "contended"
                   /\ h'[w].nRetry = 1 /\ h'[w].ids = {} /\ ~h'[w].exc
          /\ (Acts(w) /\ h[w].pc = "done" /\ h[w].last = "contended")
                => NoEffect /\ h'[w] = IdleH]_vars

\* a buffer-process handler has lost the lock and parked its notification
C7_Witness ==
    \E w \in Workers :
        /\ h[w].kind = "buffer" /\ h[w].pc = "done" /\ h[w].last = "contended"
        /\ lock # 0 /\ retryQ[h[w].body] > 0

Oldest(n) ==
    {m \in Msgs : /\ status[m] = "pending"
                  /\ Cardinality({x \in Msgs : x < m /\ status[x] = "pending"}) < n}

Min(a, b) == IF a <= b THEN a ELSE b

\* C9: a batch claim takes exactly the min(P, buffer_max_turns +
\* buffer_max_overflow) oldest pending messages, makes exactly those running
\* and leaves every other message alone.
C9_BatchClaim ==
    [][\A w \in Workers :
          (Acts(w) /\ h[w].pc = "claim" /\ h'[w].claimed)
             => LET P == Cardinality({m \in Msgs : status[m] = "pending"})
                    B == Oldest(Min(P, buffer_max_turns + buffer_max_overflow))
                IN /\ Cardinality(B) = Min(P, buffer_max_turns + buffer_max_overflow)
                   /\ h'[w].ids = B
                   /\ status' = [m \in Msgs |-> IF m \in B THEN "running"
                                                ELSE status[m]]]_vars

\* a claim was truncated at the limit: newer messages stay pending
C9_Witness ==
    \E w \in Workers :
        /\ h[w].pc = "hydrate"
        /\ Cardinality(h[w].ids) = buffer_max_turns + buffer_max_overflow
        /\ \A m \in h[w].ids : status[m] = "running"
        /\ \E m \in Msgs : status[m] = "pending" /\ \A x \in h[w].ids : x < m
\* a flush is about to claim its batch with more pending messages than the
\* claim limit
OverflowFlushStarted ==
    \E w \in Workers :
        /\ h[w].pc = "claim"
        /\ Cardinality({m \in Msgs : status[m] = "pending"})
              > buffer_max_turns + buffer_max_overflow

\* C10: when a flush starts with more pending messages than buffer_max_turns
\* + buffer_max_overflow, the parked copy drives further flushes, and
\* eventually no message of the backlog is pending.
C10_BacklogDrained ==
    OverflowFlushStarted ~> (\A m \in Msgs : status[m] # "pending")

\* the overflow flush has claimed its batch, the copy is parked and the rest
\* of the backlog is still pending
C10_Witness ==
    \E w \in Workers :
        /\ h[w].kind = "insert" /\ h[w].nRetry = 1 /\ InFlush(w)
        /\ Cardinality(h[w].ids) = buffer_max_turns + buffer_max_overflow
        /\ retryQ[h[w].body] = 1
        /\ Cardinality({m \in Msgs : status[m] = "pending"}) >= buffer_max_turns

\* w is inside the try/finally scope that follows a successful lock attempt
InLockScope(w) == h[w].pc \in {"claim", "hydrate", "agent", "final", "release"}

C12_ReleasedByOwnerOnly ==
    [][\A w \in Workers :
          (Acts(w) /\ h[w].pc = "release" /\ lock # 0 /\ lock # w)
             => lock' = lock]_vars

\* C13: a message status only moves pending -> running at a batch claim and
\* running -> success or failed; success and failed are final and no
\* message returns to pending.
C13_StatusTransitions ==
    [][\A m \in Msgs :
          status'[m] # status[m]
             => \/ status[m] = "none" /\ status'[m] = "pending"
                \/ status[m] = "pending" /\ status'[m] = "running"
                \/ status[m] = "running" /\ status'[m] \in {"success", "failed"}]_vars

\* the orders of the non-planning tasks are exactly 1..N
DenseOrders(tk) ==
    {tk[t].order : t \in NonPlanning(tk)} = 1..Cardinality(NonPlanning(tk))

\* C14: in every committed state of the session the pairs (session_id,
\* order) are unique and the orders of the non-planning tasks are exactly
\* 1..N, whatever integers the tool calls carry.
C14_DenseUniqueOrders == uq_session_id_order(tasks) /\ DenseOrders(tasks)

\* C15: insert_task(after_order = k) with k in 0..N on a task list with
\* orders 1..N succeeds, and fetch_current_tasks then gives the prior list
\* with the new task at index k: the new task has order k + 1, the tasks
\* at orders 1..k are unchanged, the tasks at orders k+1..N have their order
\* increased by one and nothing else changed, and the planning task (order
\* 0) is not touched.
C15_InsertAtIndex ==
    [][\A k \in OrderArgs :
          (/\ k \in 0..Cardinality(NonPlanning(tasks))
           /\ DenseOrders(tasks)
           /\ InsertTaskCall(k))
             => LET old == fetch_current_tasks(tasks)
                    new == fetch_current_tasks(tasks')
                    id == NewTaskId(tasks)
                IN /\ loop'.res = "created"
                   /\ Len(new) = Len(old) + 1
                   /\ new[k + 1] = id
                   /\ tasks'[id].order = k + 1
                   /\ \A i \in 1..Len(old) :
                         IF i <= k
                         THEN new[i] = old[i] /\ tasks'[old[i]] = tasks[old[i]]
                         ELSE /\ new[i + 1] = old[i]
                              /\ tasks'[old[i]] =
                                    [tasks[old[i]] EXCEPT !.order = @ + 1]
                   /\ \A t \in TaskIds :
                         (tasks[t].live /\ tasks[t].planning)
                            => tasks'[t] = tasks[t]]_vars

\* a task was inserted with after_order = 0 in front of an existing task,
\* the planning task kept order 0
C15_Witness ==
    /\ loop.res = "created"
    /\ tasks[MaxTasks].live /\ ~tasks[MaxTasks].planning
    /\ tasks[MaxTasks].order = 1
    /\ \E t \in TaskIds : tasks[t].live /\ tasks[t].planning /\ tasks[t].order = 0
    /\ \E t \in TaskIds : tasks[t].live /\ ~tasks[t].planning /\ tasks[t].order = 2

\* the tool call wrote nothing, published nothing, gave the LLM a text and
\* the agent loop goes on
RefusedWithText ==
    /\ tasks' = tasks /\ link' = link /\ events' = events
    /\ loop'.res \in {"out_of_range", "must_provide"}
    /\ loop'.pc = "tools"

\* C16: a tool call whose order argument is out of bounds (task_order
\* outside 1..N for update_task and append_messages_to_task,
\* after_task_order outside 0..N for insert_task) returns a non-fatal text,
\* writes nothing, publishes nothing and the agent loop continues.
C16_BoundsViolationRefused ==
    [][\A a \in OrderArgs :
          LET N == Cardinality(NonPlanning(tasks)) IN
          /\ (a \notin 0..N /\ InsertTaskCall(a)) => RefusedWithText
          /\ (a \notin 1..N /\ \E st \in StatusArgs : UpdateTaskCall(a, st))
                => RefusedWithText
          /\ (a \notin 1..N /\ \E idxs \in MsgArgs : AppendCall(a, idxs))
                => RefusedWithText]_vars

\* C17: an append_messages_to_task call whose target task is success or
\* failed in the table at the time of the call returns an explanatory text
\* and changes no message's task_id.
C17_ClosedTaskRefusesAppend ==
    [][\A a \in OrderArgs, idxs \in MsgArgs :
          LET q == fetch_current_tasks(tasks) IN
          (/\ AppendCall(a, idxs)
           /\ a \in 1..Len(q)
           /\ tasks[q[a]].status \in {"success", "failed"})
             => /\ link' = link
                /\ loop'.res \in {"already_closed", "no_messages"}]_vars

\* C18 (as stated): the NewTaskComplete bodies published for a task are
\* exactly its transitions into success: one per step that makes the task
\* success, none in any other step.
C18_EventPerTransition ==
    [][\A t \in TaskIds :
          events'[t] - events[t] =
              IF tasks[t].status # "success" /\ tasks'[t].status = "success"
              THEN 1 ELSE 0]_vars

\* C18 (amended): an update_task call with task_order in 1..N and
\* task_status = success publishes exactly one NewTaskComplete for the task
\* at that position of the task list, whether or not the task was success
\* before; every other update_task call and every other step publishes none.
C18_EventPerSuccessUpdate ==
    [][LET q == fetch_current_tasks(tasks) IN
       /\ \A a \in 1..Len(q) :
             UpdateTaskCall(a, "success")
                => /\ events' = [events EXCEPT ![q[a]] = @ + 1]
                   /\ tasks'[q[a]].status = "success"
       /\ events' # events
             => \E a \in 1..Len(q) : UpdateTaskCall(a, "success")]_vars

\* an update_task call has made a task success and its event is published
C18_Witness ==
    /\ loop.res = "updated"
    /\ \E t \in TaskIds :
          tasks[t].live /\ tasks[t].status = "success" /\ events[t] = 1

\* the calls of set_task_space_digested for task t that returned
\* already_digested = false
ReturnedFalse(t) == {c \in Digesters : dg[c].task = t /\ dg[c].ret = "false"}

\* C19: among the calls of set_task_space_digested for one task, in any
\* interleaving of their transactions, at most one returns already_digested
\* = false.
C19_DigestedOnce == \A t \in TaskIds : Cardinality(ReturnedFalse(t)) <= 1

\* C20: a call of flush_session_message_blocking always comes back to the
\* flush endpoint with a structured result (OK or an error), from which
\* {status, errmsg} is built: no exception leaves the blocking flush.
C20_FlushReturnsResult ==
    \A w \in Workers :
        (h[w].kind = "blocking" /\ h[w].pc = "done")
            => ~h[w].exc /\ h[w].r \in {"ok", "err"}

\* the rows with is_planning = true
PlanningRows(tk) == {t \in TaskIds : tk[t].live /\ tk[t].planning}

\* C21: in every committed state the session has at most one task with
\* is_planning = true, that task has order 0 and no other task has; it is
\* created only by a call of append_messages_to_planning_section that finds
\* none, and no later step (insert_task included) changes its order or
\* makes a second task at order 0.
C21_SinglePlanningTask ==
    [][/\ Cardinality(PlanningRows(tasks')) <= 1
       /\ \A t \in TaskIds :
             tasks'[t].live => (tasks'[t].planning <=> tasks'[t].order = 0)
       /\ \A t \in PlanningRows(tasks) :
             tasks'[t].live /\ tasks'[t].planning /\ tasks'[t].order = 0
       /\ PlanningRows(tasks') # PlanningRows(tasks)
             => /\ PlanningRows(tasks) = {}
                /\ \E idxs \in MsgArgs : AppendPlanningCall(idxs)]_vars

\* the planning task made by an earlier flush is used again by a later one,
\* next to tasks that insert_task created
C21_Witness ==
    /\ loop.res = "planned"
    /\ loop.flushes = 2
    /\ Cardinality(PlanningRows(tasks)) = 1
    /\ Cardinality(NonPlanning(tasks)) = 2
    /\ link[0] \in PlanningRows(tasks)

\* C22: task_agent_curd always comes to an end, after at most max_iterations
\* LLM calls, and in one of these ways only: an LLM response without tool
\* calls, the end of a turn that contained finish, or max_iterations
\* completed turns, each returning OK; or an error of the LLM (or of the
\* first fetch) or a fatal tool call, each returning an error result.
C22_StopsWithResult ==
    /\ run.llm_calls <= max_iterations
    /\ run.pc \in {"done", "marked"}
          => \/ /\ run.ret = "ok"
                /\ run.why \in {"no_tool_calls", "finish", "max_iterations"}
             \/ /\ run.ret = "err"
                /\ run.why \in {"llm_error", "fetch_error", "tool_not_found",
                                 "tool_error"}

\* task_agent_curd ended on an unknown tool or a failed handler
Fatal(r) ==
    r.pc \in {"done", "marked"} /\ r.why \in {"tool_not_found", "tool_error"}

\* C23: when the LLM names an unknown tool, or a tool handler raises or
\* returns an error result, task_agent_curd returns an error result at
\* once: no later tool call of the turn is dispatched, there is no further
\* LLM turn, and the flush marks the claimed batch failed.
C23_FatalToolCallEndsFlush ==
    [][/\ (/\ run.pc = "tools"
           /\ run.at <= Len(run.tool_calls)
           /\ run.tool_calls[run.at] \notin TASK_TOOLS)
             => Fatal(run')
       /\ (~Fatal(run) /\ Fatal(run'))
             => /\ run'.pc = "done"
                /\ run'.ret = "err"
                /\ run'.at = run.at
                /\ run'.tool_response = run.tool_response
                /\ run'.llm_calls = run.llm_calls
       /\ Fatal(run)
             => /\ run'.pc = "marked"
                /\ run'.batch = "failed"
                /\ run'.ret = "err"
                /\ run'.at = run.at
                /\ run'.tool_response = run.tool_response
                /\ run'.llm_calls = run.llm_calls]_vars

\* an unknown tool came after a dispatched call and before another one:
\* the later call was not dispatched and the batch is failed
C23_Witness ==
    /\ run.pc = "marked"
    /\ run.why = "tool_not_found"
    /\ run.batch = "failed"
    /\ Len(run.tool_response) = 1
    /\ run.at = 2
    /\ Len(run.tool_calls) = 3

\* a tool call other than finish
NotFinish(tool_name) == tool_name # "finish"

\* C25: when an LLM turn contains finish together with other tool calls,
\* finish only sets a flag: the other calls of the turn, before and after
\* it, are dispatched in the order of the response, and at the end of the
\* turn the loop ends with OK and without another LLM call.
C25_FinishEndsAfterTurn ==
    [][/\ (/\ run.pc = "tools"
           /\ run.at <= Len(run.tool_calls)
           /\ run.tool_calls[run.at] = "finish")
             => /\ run'.pc = "tools"
                /\ run'.just_finish
                /\ run'.at = run.at + 1
                /\ run'.tool_response = run.tool_response
       /\ (/\ run.pc = "tools"
           /\ run.at > Len(run.tool_calls)
           /\ run.just_finish)
             => /\ run.tool_response = SelectSeq(run.tool_calls, NotFinish)
                /\ run'.pc = "done"
                /\ run'.ret = "ok"
                /\ run'.why = "finish"
                /\ run'.llm_calls = run.llm_calls
       /\ run.why = "finish" => run'.llm_calls = run.llm_calls]_vars

\* finish stood between two other tool calls, both were dispatched and the
\* loop ended
C25_Witness ==
    /\ run.pc = "done"
    /\ run.why = "finish"
    /\ run.tool_calls = <<"insert_task", "finish", "update_task">>
    /\ run.tool_response = <<"insert_task", "update_task">>

\* a tool call that wrote: update_task or append_messages_to_task
Wrote(res) == loop'.calls = loop.calls + 1 /\ loop'.res = res

\* C24 (as stated): in every tool call, task_order k resolves to the task
\* whose committed order is k at the time of the call.
C24_ResolvesToOrder ==
    [][/\ Wrote("updated")
          => \A a \in 1..MaxArg, st \in StatusArgs :
                UpdateTaskCall(a, st)
                   => \E t \in NonPlanning(tasks) :
                         /\ tasks[t].order = a
                         /\ tasks' = update_task(tasks, t, st)
       /\ Wrote("appended")
          => \A a \in 1..MaxArg, idxs \in MsgArgs :
                AppendCall(a, idxs)
                   => \E t \in NonPlanning(tasks) :
                         /\ tasks[t].order = a
                         /\ link' = append_messages_to_task(
                                       link, actually_message_ids(idxs), t)]_vars

\* C24 (amended): in every tool call, task_order k resolves to the k-th
\* task of the committed task list (the non-planning tasks by ascending
\* order) at the time of the call, which is the task with order k when the
\* orders are 1..N; the context is built again after an insert_task, so a
\* following call addresses the list after the insert.
C24_ResolvesToPosition ==
    [][LET q == fetch_current_tasks(tasks) IN
       /\ Wrote("updated")
          => \A a \in 1..MaxArg, st \in StatusArgs :
                UpdateTaskCall(a, st)
                   => /\ a \in 1..Len(q)
                      /\ tasks' = update_task(tasks, q[a], st)
                      /\ DenseOrders(tasks) => tasks[q[a]].order = a
       /\ Wrote("appended")
          => \A a \in 1..MaxArg, idxs \in MsgArgs :
                AppendCall(a, idxs)
                   => /\ a \in 1..Len(q)
                      /\ link' = append_messages_to_task(
                                    link, actually_message_ids(idxs), q[a])
                      /\ DenseOrders(tasks) => tasks[q[a]].order = a]_vars

\* the first turn of a flush made a task and then closed it by
\* task_order = 1: the second call saw the list after the insert
C24_Witness ==
    /\ loop.flushes = 1 /\ loop.iter = 0 /\ loop.calls = 2
    /\ loop.res = "updated"
    /\ Cardinality(NonPlanning(tasks)) = 1
    /\ \E t \in NonPlanning(tasks) :
          tasks[t].order = 1 /\ tasks[t].status = "failed"

\* C26: a delivery whose handler raises or runs into the handler timeout
\* on every attempt has its handler invoked exactly max_retries + 1 times,
\* with a wait of retry_delay * n^2 before attempt n + 1, and is then
\* rejected without requeue; a delivery whose handler succeeds on attempt n
\* has it invoked exactly n times. (Deliveries cut short by stop() are
\* left out.)
C26_RetriesThenReject ==
    \A d \in Deliveries :
        LET r == dl[d]
            n == Len(r.outcomes)
        IN (r.pc = "settled" /\ ~r.cancelled /\ n >= 1)
              => /\ r.invoked = n
                 /\ r.waits = [i \in 1..(n - 1) |-> retry_delay * (i * i)]
                 /\ \A i \in 1..(n - 1) : r.outcomes[i] # "ok"
                 /\ IF r.outcomes[n] = "ok"
                    THEN r.acks = 1 /\ r.rejects = 0
                    ELSE /\ n = max_retries + 1
                         /\ r.acks = 0 /\ r.rejects = 1

\* C27: every delivery is settled exactly once: acked if and only if some
\* handler attempt completed without raising; rejected without requeue
\* when its body fails to parse or to validate, the handler then never
\* invoked and nothing retried, or when the retries are used up; never
\* both acked and rejected, never left unsettled by its task. (For the
\* bodies that fail, deliveries cut short by stop() are left out.)
C27_SettledOnce ==
    \A d \in Deliveries :
        LET r == dl[d] IN
        /\ r.acks + r.rejects <= 1
        /\ r.pc = "settled"
              => /\ r.acks + r.rejects = 1
                 /\ r.acks = 1
                       <=> \E i \in 1..Len(r.outcomes) : r.outcomes[i] = "ok"
        /\ (r.pc = "settled" /\ ~r.cancelled /\ r.body \in {"bad_json", "bad_schema"})
              => /\ r.rejects = 1
                 /\ r.invoked = 0
                 /\ r.retry_count = 0
                 /\ r.waits = <<>>

\* C28: on stop() the consumer loops are cancelled first, then every
\* handler task in flight is awaited to its completion and not cancelled,
\* and only then is the connection closed.
C28_InFlightAwaited ==
    /\ \A d \in Deliveries : ~dl[d].cancelled
    /\ mq.conn = "closed" => \A d \in Deliveries : ~InFlight(d)
    /\ mq.pc \in {"tasks_stopped", "stopped"}
          => \A d \in Deliveries : ~InFlight(d)

\* C29: a call of flush_session_message_blocking claims no batch before it
\* has acquired the session lock: all it does while it waits is to try the
\* lock again, with no deadline, leaving the messages alone, and it goes on
\* to the batch claim only by setting the free lock; and, the other holders
\* releasing the lock or its TTL running out, it eventually acquires the
\* lock and returns.
C29_BlockingFlushAcquires ==
    /\ [][\A w \in Workers :
             (h[w].kind = "blocking" /\ h[w].pc = "lock" /\ Acts(w))
                => /\ lock = 0
                   /\ lock' = w
                   /\ h'[w].pc = "claim"
                   /\ status' = status]_vars
    /\ \A w \in Workers :
          (h[w].kind = "blocking" /\ h[w].pc = "lock")
             ~> (h[w].kind # "blocking")

\* a blocking flush has acquired the lock, flushed a batch and released
\* the lock
C29_Witness ==
    \E w \in Workers :
        /\ h[w].kind = "blocking" /\ h[w].pc = "done"
        /\ h[w].claimed /\ h[w].r = "ok"
        /\ lock = 0

\* C30: within a flush the messages handed to the agent are exactly the
\* claimed batch in ascending created_at order, and the zero-based id N of
\* a message in the prompt is its position in message_ids_index, so the
\* index N of a tool call resolves to the message shown as <message id=N>.
C30_BatchShownInOrder ==
    bt.pc = "agent"
       => LET n == Len(bt.messages) IN
          /\ {bt.messages[i] : i \in 1..n} = {m \in Msgs : status[m] = "running"}
          /\ n = Cardinality({m \in Msgs : status[m] = "running"})
          /\ \A i, j \in 1..n : i < j => bt.messages[i] < bt.messages[j]
          /\ Len(bt.prompt) = n
          /\ \A i \in 1..n :
                ResolveIndex(bt.index, bt.prompt[i].id) = bt.prompt[i].message
          /\ bt.asked \in 0..(n - 1)
                => \E i \in 1..n : /\ bt.prompt[i].id = bt.asked
                                   /\ bt.prompt[i].message = bt.resolved

\* the database gave the two rows of a batch newest first, and a tool call
\* with index 1 got the second message of the prompt
C30_Witness ==
    /\ bt.pc = "agent"
    /\ Len(bt.rows) = 2 /\ bt.rows[1] > bt.rows[2]
    /\ bt.asked = 1
    /\ bt.resolved = bt.messages[2]
    /\ bt.prompt[2] = [id |-> 1, message |-> bt.resolved]

\* C31: a failure to publish the NewTaskComplete body changes nothing but
\* the publishing task itself (not the result of the update_task call, the
\* committed rows, the result of the agent or the status of the batch), and
\* a flush whose agent returned OK marks its batch success whatever became
\* of the publishes it started.
C31_PublishFailureNotFatal ==
    /\ [][\A t \in TaskIds :
             (tx.pub[t] = "scheduled" /\ tx'.pub[t] = "failed")
                => tx' = [tx EXCEPT !.pub[t] = "failed"]]_vars
    /\ []((tx.pc = "done" /\ tx.ret = "ok") => tx.batch = "success")

\* the flush is over and its batch is success: the publish for one task
\* failed after its update was committed, the publish for another task has
\* not run yet
C31_Witness ==
    /\ tx.pc = "done" /\ tx.ret = "ok" /\ tx.batch = "success"
    /\ tx.res = "updated"
    /\ \E t, u \in TaskIds :
          /\ tx.pub[t] = "failed" /\ tx.committed.tasks[t].status = "success"
          /\ tx.pub[u] = "scheduled" /\ tx.committed.tasks[u].status = "success"

\* no live row of tk has a negative order
NonNegative(tk) == \A t \in TaskIds : tk[t].live => tk[t].order >= 0

\* C33: no committed state contains a task with a negative order. The
\* committed rows only change at the commit of a session scope, to the rows
\* of that transaction, all non-negative; an exception inside insert_task
\* leaves the committed rows as they were and discards what was flushed;
\* and a reader of committed data never sees a negative order.
C33_NoNegativeOrderCommitted ==
    /\ [](NonNegative(tx.committed.tasks) /\ NonNegative(read_committed(tx).tasks))
    /\ [][tx'.committed # tx.committed
             => /\ tx.pc = "exit"
                /\ tx'.committed = tx.work
                /\ NonNegative(tx.work.tasks)]_vars
    /\ [][(tx.pc \in {"flip", "renumber", "add"} /\ tx'.res = "fatal")
             => /\ tx'.committed = tx.committed
                /\ tx'.work = tx.committed]_vars

\* insert_task has flushed its first step: the open transaction holds a
\* shifted row with a negative order, the committed row is unchanged
C33_Witness ==
    /\ tx.pc = "renumber"
    /\ \E t \in TaskIds :
          /\ tx.work.tasks[t].live /\ tx.work.tasks[t].order < 0
          /\ tx.committed.tasks[t].order = -tx.work.tasks[t].order
          /\ read_committed(tx).tasks[t].order > 0

\* C35: the NewTaskComplete body for a task is never sent while the
\* transaction that set the task to success is uncommitted, and
\* space_complete_new_task never marks a task digested that it read with a
\* status other than success.
C35_PublishedAfterCommit ==
    /\ [][\A t \in TaskIds :
             (tx.pub[t] = "scheduled" /\ tx'.pub[t] = "sent")
                => t \notin tx.uncommitted]_vars
    /\ [](\A t \in TaskIds : tx.digested[t] => tx.seen[t] = "success")

\* C36: every tool call commits in a transaction of its own. A fatal tool
\* call (unknown tool, exception in the handler or at the commit) leaves
\* the committed task rows and message links exactly as the earlier tool
\* calls of the flush committed them, the final status write does not touch
\* them, and the batch of such a flush is marked failed.
C36_EarlierCallsStayCommitted ==
    /\ [][(tx'.res = "fatal" /\ tx.res # "fatal")
             => tx'.committed = tx.committed]_vars
    /\ [][tx.pc = "returned" => tx'.committed = tx.committed]_vars
    /\ []((tx.pc = "done" /\ tx.res = "fatal") => tx.batch = "failed")
    /\ [][(tx.pc = "exit" /\ tx'.pc = "loop") => tx'.committed = tx.work]_vars

\* the second tool call of the flush was fatal and the batch is failed: the
\* task the first call inserted, and nothing else, was added to the rows
\* the flush started with
C36_Witness ==
    /\ tx.pc = "done" /\ tx.batch = "failed"
    /\ tx.res = "fatal" /\ tx.calls = 2
    /\ tx.committed # tx.start
    /\ \E t \in TaskIds :
          /\ tx.committed.tasks[t].live /\ ~tx.start.tasks[t].live
          /\ tx.work = tx.committed

\* the buffer-process handler w is at its lock attempt and the key is set
BufferContended(w) == h[w].kind = "buffer" /\ h[w].pc = "lock" /\ lock # 0

\* C32: a buffer-process notification that fails to get the session lock
\* is parked on insert-retry (one copy, no message changed); a parked copy
\* leaves insert-retry only as a delivery to insert_new_message, which
\* starts again at the latest-wins and threshold checks; and, its message
\* being the newest pending one, the pending messages of the session are
\* eventually flushed.
C32_ParkedBufferFlushes ==
    /\ [][\A w \in Workers :
             (BufferContended(w) /\ Acts(w))
                => /\ retryQ' = [retryQ EXCEPT ![h[w].body] = @ + 1]
                   /\ UNCHANGED <<status, entryQ, timers, lock>>
                   /\ h'[w].last = "contended"]_vars
    /\ [][\A m \in Msgs :
             retryQ'[m] < retryQ[m]
                => \E w \in Workers :
                      /\ h[w].pc = "idle"
                      /\ h'[w] = Invoke("insert", m, 0)]_vars
    /\ \A w \in Workers :
          (BufferContended(w) /\ NewestPending(h[w].body))
             ~> (\A m \in Msgs : status[m] # "pending")

\* the notification of the newest pending message, parked by a
\* buffer-process handler that lost the lock, is back in insert_new_message
\* at its threshold check while the message is still pending
C32_Witness ==
    \E w, v \in Workers :
        /\ h[w].kind = "insert" /\ h[w].pc = "count"
        /\ NewestPending(h[w].body)
        /\ h[v].kind = "buffer" /\ h[v].last = "contended"
        /\ h[v].body = h[w].body /\ h[v].pc = "done"
        /\ retryQ[h[w].body] = 0

\* C34: when the outer timeout of the broker cancels an insert-entry or
\* buffer-process handler between its batch claim and its final status
\* write, the handler has released the session lock when it ends and every
\* message of the claimed batch is failed.
C34_CancelledBatchFailed ==
    \A w \in Workers :
        (h[w].cancelled /\ h[w].claimed /\ h[w].pc = "done")
            => /\ lock # w
               /\ \A m \in h[w].ids : status[m] = "failed"

\* C37: without crash and infrastructure error, and the event loop and the
\* broker being weakly fair, every message that is pending is eventually
\* claimed by a flush, whatever the arrival pattern of the messages, their
\* notifications and the blocking flushes.
C37_PendingEventuallyClaimed ==
    \A m \in Msgs : (status[m] = "pending") ~> (status[m] # "pending")

\* a message that arrived while the session lock was held, and whose
\* notification was parked for that reason, has been claimed by the flush
\* the parked copy started, while the idle timer of an older message is
\* still sleeping
C37_Witness ==
    \E w, v \in Workers, m \in Msgs :
        /\ InFlush(w) /\ h[w].body = m /\ m \in h[w].ids
        /\ status[m] = "running"
        /\ h[v].pc = "done" /\ h[v].last = "contended" /\ h[v].body = m
        /\ \E x \in Msgs : x < m /\ timers[x] > 0

\* C38: when flush_session_message_blocking returns OK, no message that
\* was pending when it acquired the lock is still pending. (From a backlog
\* no message is created later and none returns to pending, so a message
\* that is pending at the return was pending at the acquisition.)
C38_BlockingFlushDrains ==
    \A w \in Workers :
        (h[w].kind = "blocking" /\ h[w].pc = "done" /\ h[w].r = "ok" /\ ~h[w].exc)
            => \A m \in Msgs : status[m] # "pending"

\* C39: a tool call links exactly the batch message at the position its
\* index names when the index lies in 0..len(batch)-1; an index outside
\* that range, a negative one included, links no message; and no message
\* outside the current batch has its task_id written.
C39_OnlyNamedPositionsLinked ==
    bt.pc \in {"agent", "fatal"}
       => LET n == Len(bt.messages) IN
          /\ bt.linked \subseteq {bt.messages[i] : i \in 1..n}
          /\ bt.asked \in 0..(n - 1) => bt.resolved = bt.messages[bt.asked + 1]
          /\ (bt.asked \in (-ClaimLimit - 1)..ClaimLimit /\ bt.asked \notin 0..(n - 1))
                => bt.resolved \notin Msgs
====
